---- MODULE Spec2Model ----
(***************************************************************************)
(* The chemistry helper's core: the variable registry with alias           *)
(* resolution and unit conversion (aliases.py), the equation matcher       *)
(* (chem_helper.py over equations.py and constants.py) and the reaction    *)
(* parser of the equilibrium tool (gui.py).                                *)
(*                                                                         *)
(* A Python str is a sequence of one-character strings, so that strip,     *)
(* lower, startswith, split and the comparisons are computed, character    *)
(* by character, as the code computes them.                                *)
(***************************************************************************)
EXTENDS Integers, Sequences, FiniteSets, TLC

\* ------------------------------------------------------------------------
\* Bounds of the model
\* ------------------------------------------------------------------------
\* The decimal places two numbers may be apart to be added.
MaxShift == 4

\* The number of keys of a known dict.
MaxKnown == 4

\* The largest min_overlap asked for.
MaxMinOverlap == 2

\* The largest numerator of a value converted.
MaxMantissa == 3

\* The number of terms of a side of a reaction.
MaxTerms == 2

\* The number of species typed on a side of the net ionic tool.
MaxSpecies == 2

\* The rounds of the bisection of _solve_extent_for_K taken, of its 100.
BisectionRounds == 2

\* _solve_extent_for_K: N = 200, the steps of the coarse scan
N == 200

VARIABLES
  pc,         \* the step the run is at
  nv_name,    \* normalize_var: the text typed
  nv_canon,   \* normalize_var(nv_name)
  nv_again,   \* normalize_var(nv_canon)
  m_known,    \* the matcher: the dict of known values
  m_min,      \* min_overlap of the last find_applicable_equations
  m_matches,  \* the list find_applicable_equations returned
  m_eq,       \* the index in EQUATIONS of the equation asked about
  m_target,   \* can_solve(EQUATIONS[m_eq], m_known)
  m_solved,   \* the target solve_for was called with
  m_result,   \* solve_for(EQUATIONS[m_eq], m_solved, m_known)
  cv_var,     \* unit conversion: the canonical variable
  cv_unit,    \* the unit of the value
  cv_value,   \* the value entered
  cv_base,    \* convert_to_base(cv_var, cv_value, cv_unit)
  cv_back,    \* convert_from_base(cv_var, cv_base, cv_unit)
  r_left,     \* the reaction typed: the terms of its left side
  r_right,    \* the terms of its right side
  r_arrow,    \* the arrow between the sides
  r_text,     \* the text of the reaction
  r_out,      \* _parse_reaction(r_text): the dict or the error
  r_parts,    \* the two sides the net ionic tool splits r_text into
  sp_tokens,  \* a side of the net ionic tool: the species typed
  sp_text,    \* the text of the side
  sp_already, \* the checkbox "Inputs are already ionic"
  sp_specs,   \* parse_side(sp_text): the species or the error
  sp_ionic,   \* dissociate_side(sp_specs): the ions or the error
  ni_eL,      \* the net ionic tool: the text of the left entry
  ni_eR,      \* the text of the right entry
  ni_balance, \* the checkbox "Attempt to balance the molecular equation first"
  ni_already, \* the checkbox "Inputs are already ionic"
  ni_out,     \* what go has shown
  ex_stoich,  \* _solve_extent_for_K: the dict species -> nu
  ex_C0,      \* the dict species -> initial concentration
  ex_K,       \* the constant K
  ex_a,       \* the bracket of the bisection: its left end
  ex_b,       \* its right end
  ex_round,   \* the rounds of the bisection done
  ex_x,       \* the extent returned or the error raised
  ex_shift,   \* the ICE tool: the shift it reports with the extent
  known_base, \* the main window: the dict of the known values, in base units
  known_ui,   \* the dict of the known values as entered: unit and display_value
  known_tree, \* the rows of the table of the known values: the keys
  var_name,   \* the text of the variable entry
  var_value,  \* the text of the value entry
  var_unit,   \* the text of the unit box
  suggest_list, \* the labels of the list of suggestions
  suggest_shown, \* whether the list of suggestions is shown
  kn_accepted, \* the key of the suggestion accepted into the variable entry
  kn_added    \* the last Add / Update of an accepted key: the key and the value

nvVars == <<nv_name, nv_canon, nv_again>>

mVars == <<m_known, m_min, m_matches, m_eq, m_target, m_solved, m_result>>

cvVars == <<cv_var, cv_unit, cv_value, cv_base, cv_back>>

rVars == <<r_left, r_right, r_arrow, r_text, r_out, r_parts>>

spVars == <<sp_tokens, sp_text, sp_already, sp_specs, sp_ionic>>

niVars == <<ni_eL, ni_eR, ni_balance, ni_already, ni_out>>

exVars == <<ex_stoich, ex_C0, ex_K, ex_a, ex_b, ex_round, ex_x, ex_shift>>

knVars ==
  <<known_base, known_ui, known_tree, var_name, var_value, var_unit,
    suggest_list, suggest_shown, kn_accepted, kn_added>>

\* The variables of the main window's components, and those of the tools.
mainVars == <<nvVars, mVars, cvVars, rVars, knVars>>

toolVars == <<spVars, niVars, exVars>>

vars == <<pc, mainVars, toolVars>>

\* ------------------------------------------------------------------------
\* Strings: str as a sequence of characters
\* ------------------------------------------------------------------------
Range(s) == {s[i] : i \in DOMAIN s}

Max(S) == CHOOSE x \in S : \A y \in S : y <= x

Min(S) == CHOOSE x \in S : \A y \in S : x <= y

\* The character tables.  A character outside ASCII is written by its
\* code point, as "U+0394" for the Greek capital delta.
\* str.lower(), one character at a time: the characters it changes.
UpperChars ==
  <<"A", "B", "C", "D", "E", "F", "G", "H", "I", "J", "K", "L", "M", "N", "O", "P", "Q", "R", "S",
    "T", "U", "V", "W", "X", "Y", "Z", "U+0394", "U+03A3">>
LowerChars ==
  <<"a", "b", "c", "d", "e", "f", "g", "h", "i", "j", "k", "l", "m", "n", "o", "p", "q", "r", "s",
    "t", "u", "v", "w", "x", "y", "z", "U+03B4", "U+03C3">>
\* The code points of the characters, which order Python's strings.
CodeChars ==
  <<" ", "#", "'", "(", ")", "*", "+", ",", "-", ".", "/", "0", "1", "2", "3", "4", "5", "6", "7",
    "8", "9", ":", "=", ">", "A", "B", "C", "D", "E", "F", "G", "H", "I", "J", "K", "L", "M", "N",
    "O", "P", "Q", "R", "S", "T", "U", "V", "W", "X", "Y", "Z", "[", "]", "^", "_", "a", "b", "c", "d", "e",
    "f", "g", "h", "i", "j", "k", "l", "m", "n", "o", "p", "q", "r", "s", "t", "u", "v", "w", "x",
    "y", "z", "U+00B0", "U+00B7", "U+0394", "U+03A3", "U+03B1", "U+03B4", "U+03B8", "U+03BB",
    "U+03BD", "U+03BE", "U+03C0", "U+03C1", "U+03C3", "U+03F1", "U+2013", "U+2019", "U+2192",
    "U+2194", "U+21CC", "U+221E", "U+27F7">>
CodePoints ==
  <<32, 35, 39, 40, 41, 42, 43, 44, 45, 46, 47, 48, 49, 50, 51, 52, 53, 54, 55, 56, 57, 58, 61, 62,
    65, 66, 67, 68, 69, 70, 71, 72, 73, 74, 75, 76, 77, 78, 79, 80, 81, 82, 83, 84, 85, 86, 87, 88,
    89, 90, 91, 93, 94, 95, 97, 98, 99, 100, 101, 102, 103, 104, 105, 106, 107, 108, 109, 110, 111, 112,
    113, 114, 115, 116, 117, 118, 119, 120, 121, 122, 176, 183, 916, 931, 945, 948, 952, 955, 957,
    958, 960, 961, 963, 1009, 8211, 8217, 8594, 8596, 8652, 8734, 10231>>

\* str.lower() of one character.
LowerChar(ch) ==
  IF \E i \in DOMAIN UpperChars : UpperChars[i] = ch
  THEN LowerChars[CHOOSE i \in DOMAIN UpperChars : UpperChars[i] = ch]
  ELSE ch

\* str.lower()
lower(s) == [i \in DOMAIN s |-> LowerChar(s[i])]

\* ord(ch)
Ord(ch) == CodePoints[CHOOSE i \in DOMAIN CodeChars : CodeChars[i] = ch]

\* str.isspace() of one character
IsSpace(ch) == ch \in {" ", "\t", "\n", "\r"}

IsDigit(ch) == ch \in {"0", "1", "2", "3", "4", "5", "6", "7", "8", "9"}

\* str.strip(): leading and trailing whitespace removed.
strip(s) ==
  LET keep == {i \in DOMAIN s : ~IsSpace(s[i])}
  IN  IF keep = {} THEN <<>> ELSE SubSeq(s, Min(keep), Max(keep))

\* target.startswith(query)
startswith(target, query) ==
  /\ Len(query) <= Len(target)
  /\ SubSeq(target, 1, Len(query)) = query

\* a < b for two str: the first differing character decides, by code point;
\* a proper prefix is smaller.
StrLess(a, b) ==
  LET n == IF Len(a) < Len(b) THEN Len(a) ELSE Len(b)
      diff == {i \in 1..n : a[i] # b[i]}
  IN  IF diff = {} THEN Len(a) < Len(b)
      ELSE Ord(a[Min(diff)]) < Ord(b[Min(diff)])

\* The first position >= from at which pat occurs in s, or 0 (str.find, 1-based).
Find(s, pat, from) ==
  LET hits == {i \in from..(Len(s) - Len(pat) + 1) : SubSeq(s, i, i + Len(pat) - 1) = pat}
  IN  IF hits = {} THEN 0 ELSE Min(hits)

\* s.replace(old, new) for a non-empty old: left to right, non-overlapping.
RECURSIVE replace(_, _, _)
replace(s, old, new) ==
  LET i == Find(s, old, 1)
  IN  IF i = 0 THEN s
      ELSE SubSeq(s, 1, i - 1) \o new \o replace(SubSeq(s, i + Len(old), Len(s)), old, new)

\* s.split(sep): every piece between the occurrences of sep, empty ones included.
RECURSIVE split(_, _)
split(s, sep) ==
  LET i == Find(s, sep, 1)
  IN  IF i = 0 THEN <<s>>
      ELSE <<SubSeq(s, 1, i - 1)>> \o split(SubSeq(s, i + Len(sep), Len(s)), sep)

\* s.split(sep, 1): at most one split, at the first occurrence.
split1(s, sep) ==
  LET i == Find(s, sep, 1)
  IN  IF i = 0 THEN <<s>>
      ELSE <<SubSeq(s, 1, i - 1), SubSeq(s, i + Len(sep), Len(s))>>

\* The float literals of the sources whose mantissa is too long for the
\* arithmetic here: each is kept as a named factor (its digits), exactly.
Literals ==
  {"1097373156816", "13605693122994", "1602176634", "17453292519943295", "299792458", "662607015", "6894757293", "8314462618", "9869232667160128"}

\* ------------------------------------------------------------------------
\* Numbers: (n/d) * 10^e * the product of lit[l]-th powers of the long
\* literals, in exact arithmetic.  The normal form is unique: n/d in lowest
\* terms, d > 0 with no factor 2 or 5, n not a multiple of 10.
\* ------------------------------------------------------------------------
NoLit == [l \in Literals |-> 0]

Zero == [n |-> 0, d |-> 1, e |-> 0, lit |-> NoLit]

\* What a Python exception leaves in place of a value.
PyError(kind) == [error |-> kind]

IsNum(x) == "n" \in DOMAIN x

Abs(i) == IF i < 0 THEN -i ELSE i

RECURSIVE Gcd(_, _)
Gcd(a, b) == IF b = 0 THEN a ELSE Gcd(b, a % b)

RECURSIVE Pow10(_)
Pow10(k) == IF k = 0 THEN 1 ELSE 10 * Pow10(k - 1)

RECURSIVE NormDen(_, _, _, _)
NormDen(n, d, e, lit) ==
  IF d % 2 = 0 THEN NormDen(n * 5, d \div 2, e - 1, lit)
  ELSE IF d % 5 = 0 THEN NormDen(n * 2, d \div 5, e - 1, lit)
  ELSE IF n % 10 = 0 THEN NormDen(n \div 10, d, e + 1, lit)
  ELSE [n |-> n, d |-> d, e |-> e, lit |-> lit]

Norm(n, d, e, lit) ==
  IF n = 0 THEN Zero
  ELSE LET s == IF d < 0 THEN -1 ELSE 1
           g == Gcd(Abs(n), Abs(d))
       IN  NormDen((s * n) \div g, (s * d) \div g, e, lit)

\* The decimal literal n * 10^e, and the long literal l * 10^e.
Dec(n, e) == Norm(n, 1, e, NoLit)

Lit(l, e) == [n |-> 1, d |-> 1, e |-> e, lit |-> [NoLit EXCEPT ![l] = 1]]

Rat(n, d) == Norm(n, d, 0, NoLit)

Neg(x) == IF IsNum(x) THEN [x EXCEPT !.n = -x.n] ELSE x

Mul(x, y) ==
  IF ~IsNum(x) THEN x ELSE IF ~IsNum(y) THEN y
  ELSE LET g1 == Gcd(Abs(x.n), y.d)
           g2 == Gcd(Abs(y.n), x.d)
       IN  IF x.n = 0 \/ y.n = 0 THEN Zero
           ELSE Norm((x.n \div g1) * (y.n \div g2), (x.d \div g2) * (y.d \div g1), x.e + y.e,
                     [l \in Literals |-> x.lit[l] + y.lit[l]])

\* x / y: Python raises ZeroDivisionError for a float division by zero.
Div(x, y) ==
  IF ~IsNum(x) THEN x ELSE IF ~IsNum(y) THEN y
  ELSE IF y.n = 0 THEN PyError("ZeroDivisionError")
  ELSE Mul(x, [n |-> IF y.n < 0 THEN -y.d ELSE y.d, d |-> Abs(y.n), e |-> -y.e,
               lit |-> [l \in Literals |-> -y.lit[l]]])

\* x + y.  A sum of two numbers with different long-literal factors, or more
\* than MaxShift decimal places apart, has no representation here.
Add(x, y) ==
  IF ~IsNum(x) THEN x ELSE IF ~IsNum(y) THEN y
  ELSE IF x.n = 0 THEN y
  ELSE IF y.n = 0 THEN x
  ELSE LET em == IF x.e < y.e THEN x.e ELSE y.e
       IN  IF x.lit # y.lit \/ x.e - em > MaxShift \/ y.e - em > MaxShift
           THEN PyError("unrepresentable")
           ELSE Norm(x.n * Pow10(x.e - em) * y.d + y.n * Pow10(y.e - em) * x.d,
                     x.d * y.d, em, x.lit)

Sub(x, y) == Add(x, Neg(y))

\* get_close_matches(..., cutoff=0.75), as the fraction CutoffNum/CutoffDen
CutoffNum == 3

CutoffDen == 4

\* ------------------------------------------------------------------------
\* The data of the sources
\* ------------------------------------------------------------------------
\* VARIABLES, in the dict's iteration order.
VARIABLES_TABLE == <<
  [key |-> <<"Q">>,   \* Q
   name |-> <<"h","e","a","t"," ","(","e","n","e","r","g","y",")">>,
   aliases |-> <<<<"q">>, <<"h","e","a","t">>, <<"e","n","e","r","g","y">>>>,
   base |-> <<"J">>,
   choices |-> <<
        [unit |-> <<"J">>, factor |-> Dec(1, 0), offset |-> Zero],
        [unit |-> <<"k","J">>, factor |-> Dec(1, 3), offset |-> Zero],
        [unit |-> <<"c","a","l">>, factor |-> Dec(4184, -3), offset |-> Zero],
        [unit |-> <<"k","c","a","l">>, factor |-> Dec(4184, 0), offset |-> Zero]>>],
  [key |-> <<"m">>,   \* m
   name |-> <<"m","a","s","s">>,
   aliases |-> <<<<"m">>, <<"m","a","s","s">>>>,
   base |-> <<"k","g">>,
   choices |-> <<
        [unit |-> <<"k","g">>, factor |-> Dec(1, 0), offset |-> Zero],
        [unit |-> <<"g">>, factor |-> Dec(1, -3), offset |-> Zero]>>],
  [key |-> <<"c">>,   \* c
   name |-> <<"s","p","e","c","i","f","i","c"," ","h","e","a","t"," ","c","a","p","a","c","i","t","y">>,
   aliases |-> <<<<"c">>, <<"s","p","e","c","i","f","i","c"," ","h","e","a","t">>,
               <<"s","p","e","c","i","f","i","c","h","e","a","t">>, <<"s","h","c">>>>,
   base |-> <<"J","/","(","k","g","U+00B7","K",")">>,
   choices |-> <<
        [unit |-> <<"J","/","(","k","g","U+00B7","K",")">>, factor |-> Dec(1, 0), offset |-> Zero],
        [unit |-> <<"J","/","(","g","U+00B7","K",")">>, factor |-> Dec(1, 3), offset |-> Zero],
        [unit |-> <<"c","a","l","/","(","g","U+00B7","U+00B0","C",")">>, factor |-> Dec(4184, 0), offset |-> Zero]>>],
  [key |-> <<"U+0394","T">>,   \* ΔT
   name |-> <<"t","e","m","p","e","r","a","t","u","r","e"," ","c","h","a","n","g","e">>,
   aliases |-> <<<<"d","e","l","t","a","t">>, <<"d","e","l","t","a","_","t">>, <<"d","t">>,
               <<"d","t","e","m","p">>, <<"d","e","l","t","a"," ","t","e","m","p">>, <<"U+0394","t">>,
               <<"d","e","l","t","a","t","e","m","p">>,
               <<"d","e","l","t","a","t","e","m","p","e","r","a","t","u","r","e">>,
               <<"d","e","l","t","a","T">>,
               <<"d","e","l","t","a"," ","t","e","m","p","e","r","a","t","u","r","e">>>>,
   base |-> <<"K">>,
   choices |-> <<
        [unit |-> <<"K">>, factor |-> Dec(1, 0), offset |-> Zero],
        [unit |-> <<"U+00B0","C">>, factor |-> Dec(1, 0), offset |-> Zero]>>],
  [key |-> <<"p">>,   \* p
   name |-> <<"p","r","e","s","s","u","r","e">>,
   aliases |-> <<<<"p">>, <<"p","r","e","s","s","u","r","e">>, <<"p","r","e","s">>, <<"p","r","e","s","s">>>>,
   base |-> <<"P","a">>,
   choices |-> <<
        [unit |-> <<"P","a">>, factor |-> Dec(1, 0), offset |-> Zero],
        [unit |-> <<"k","P","a">>, factor |-> Dec(1, 3), offset |-> Zero],
        [unit |-> <<"b","a","r">>, factor |-> Dec(1, 5), offset |-> Zero],
        [unit |-> <<"a","t","m">>, factor |-> Dec(101325, 0), offset |-> Zero],
        [unit |-> <<"p","s","i">>, factor |-> Lit("6894757293", -6), offset |-> Zero]>>],
  [key |-> <<"V">>,   \* V
   name |-> <<"v","o","l","u","m","e">>,
   aliases |-> <<<<"v">>, <<"v","o","l">>, <<"v","o","l","u","m","e">>>>,
   base |-> <<"m","U+00B3">>,
   choices |-> <<
        [unit |-> <<"m","U+00B3">>, factor |-> Dec(1, 0), offset |-> Zero],
        [unit |-> <<"L">>, factor |-> Dec(1, -3), offset |-> Zero],
        [unit |-> <<"m","L">>, factor |-> Dec(1, -6), offset |-> Zero],
        [unit |-> <<"c","m","U+00B3">>, factor |-> Dec(1, -6), offset |-> Zero]>>],
  [key |-> <<"n">>,   \* n
   name |-> <<"a","m","o","u","n","t"," ","(","m","o","l","e","s",")">>,
   aliases |-> <<<<"n">>, <<"m","o","l","e","s">>, <<"a","m","o","u","n","t">>, <<"m","o","l">>>>,
   base |-> <<"m","o","l">>,
   choices |-> <<
        [unit |-> <<"m","o","l">>, factor |-> Dec(1, 0), offset |-> Zero],
        [unit |-> <<"m","m","o","l">>, factor |-> Dec(1, -3), offset |-> Zero]>>],
  [key |-> <<"R">>,   \* R
   name |-> <<"g","a","s"," ","c","o","n","s","t","a","n","t">>,
   aliases |-> <<<<"r">>, <<"g","a","s"," ","c","o","n","s","t","a","n","t">>,
               <<"g","a","s","c","o","n","s","t","a","n","t">>, <<"r","g","a","s">>>>,
   base |-> <<"J","/","(","m","o","l","U+00B7","K",")">>,
   choices |-> <<
        [unit |-> <<"J","/","(","m","o","l","U+00B7","K",")">>, factor |-> Dec(1, 0), offset |-> Zero],
        [unit |-> <<"L","U+00B7","a","t","m","/","(","m","o","l","U+00B7","K",")">>, factor |-> Dec(101325, 0), offset |-> Zero]>>],
  [key |-> <<"T">>,   \* T
   name |-> <<"t","e","m","p","e","r","a","t","u","r","e">>,
   aliases |-> <<<<"t">>, <<"t","e","m","p">>, <<"t","e","m","p","e","r","a","t","u","r","e">>>>,
   base |-> <<"K">>,
   choices |-> <<
        [unit |-> <<"K">>, factor |-> Dec(1, 0), offset |-> Zero],
        [unit |-> <<"U+00B0","C">>, factor |-> Dec(1, 0), offset |-> Dec(27315, -2)]>>],
  [key |-> <<"U+03C1">>,   \* ρ
   name |-> <<"d","e","n","s","i","t","y">>,
   aliases |-> <<<<"r","h","o">>, <<"d","e","n","s","i","t","y">>, <<"U+03F1">>, <<"d","e","n","s">>>>,
   base |-> <<"k","g","/","m","U+00B3">>,
   choices |-> <<
        [unit |-> <<"k","g","/","m","U+00B3">>, factor |-> Dec(1, 0), offset |-> Zero],
        [unit |-> <<"g","/","m","L">>, factor |-> Dec(1, 3), offset |-> Zero],
        [unit |-> <<"g","/","c","m","U+00B3">>, factor |-> Dec(1, 3), offset |-> Zero]>>],
  [key |-> <<"c","_","m">>,   \* c_m
   name |-> <<"m","o","l","a","r","i","t","y"," ","(","c","o","n","c","e","n","t","r","a","t","i","o","n",")">>,
   aliases |-> <<<<"m","o","l","a","r","i","t","y">>, <<"c","o","n","c","e","n","t","r","a","t","i","o","n">>,
               <<"c","m">>, <<"c","_","m">>, <<"c","o","n","c">>>>,
   base |-> <<"m","o","l","/","L">>,
   choices |-> <<
        [unit |-> <<"m","o","l","/","L">>, factor |-> Dec(1, 0), offset |-> Zero],
        [unit |-> <<"m","m","o","l","/","L">>, factor |-> Dec(1, -3), offset |-> Zero]>>],
  [key |-> <<"p","1">>,   \* p1
   name |-> <<"i","n","i","t","i","a","l"," ","p","r","e","s","s","u","r","e">>,
   aliases |-> <<<<"p","1">>, <<"p","_","1">>, <<"p"," ","i","n","i","t","i","a","l">>,
               <<"p"," ","i","n","i","t">>>>,
   base |-> <<"P","a">>,
   choices |-> <<
        [unit |-> <<"P","a">>, factor |-> Dec(1, 0), offset |-> Zero],
        [unit |-> <<"k","P","a">>, factor |-> Dec(1, 3), offset |-> Zero],
        [unit |-> <<"b","a","r">>, factor |-> Dec(1, 5), offset |-> Zero],
        [unit |-> <<"a","t","m">>, factor |-> Dec(101325, 0), offset |-> Zero],
        [unit |-> <<"p","s","i">>, factor |-> Lit("6894757293", -6), offset |-> Zero]>>],
  [key |-> <<"v","1">>,   \* v1
   name |-> <<"i","n","i","t","i","a","l"," ","v","o","l","u","m","e">>,
   aliases |-> <<<<"v","1">>, <<"v","_","1">>, <<"v"," ","i","n","i","t","i","a","l">>,
               <<"v"," ","i","n","i","t">>>>,
   base |-> <<"m","U+00B3">>,
   choices |-> <<
        [unit |-> <<"m","U+00B3">>, factor |-> Dec(1, 0), offset |-> Zero],
        [unit |-> <<"L">>, factor |-> Dec(1, -3), offset |-> Zero],
        [unit |-> <<"m","L">>, factor |-> Dec(1, -6), offset |-> Zero],
        [unit |-> <<"c","m","U+00B3">>, factor |-> Dec(1, -6), offset |-> Zero]>>],
  [key |-> <<"p","2">>,   \* p2
   name |-> <<"f","i","n","a","l"," ","p","r","e","s","s","u","r","e">>,
   aliases |-> <<<<"p","2">>, <<"p","_","2">>, <<"p"," ","f","i","n","a","l">>>>,
   base |-> <<"P","a">>,
   choices |-> <<
        [unit |-> <<"P","a">>, factor |-> Dec(1, 0), offset |-> Zero],
        [unit |-> <<"k","P","a">>, factor |-> Dec(1, 3), offset |-> Zero],
        [unit |-> <<"b","a","r">>, factor |-> Dec(1, 5), offset |-> Zero],
        [unit |-> <<"a","t","m">>, factor |-> Dec(101325, 0), offset |-> Zero],
        [unit |-> <<"p","s","i">>, factor |-> Lit("6894757293", -6), offset |-> Zero]>>],
  [key |-> <<"v","2">>,   \* v2
   name |-> <<"f","i","n","a","l"," ","v","o","l","u","m","e">>,
   aliases |-> <<<<"v","2">>, <<"v","_","2">>, <<"v"," ","f","i","n","a","l">>>>,
   base |-> <<"m","U+00B3">>,
   choices |-> <<
        [unit |-> <<"m","U+00B3">>, factor |-> Dec(1, 0), offset |-> Zero],
        [unit |-> <<"L">>, factor |-> Dec(1, -3), offset |-> Zero],
        [unit |-> <<"m","L">>, factor |-> Dec(1, -6), offset |-> Zero],
        [unit |-> <<"c","m","U+00B3">>, factor |-> Dec(1, -6), offset |-> Zero]>>],
  [key |-> <<"p","_","t","o","t","a","l">>,   \* p_total
   name |-> <<"t","o","t","a","l"," ","p","r","e","s","s","u","r","e">>,
   aliases |-> <<<<"p","_","t","o","t","a","l">>, <<"p","t","o","t","a","l">>, <<"p"," ","t","o","t">>,
               <<"t","o","t","a","l"," ","p","r","e","s","s","u","r","e">>, <<"P","t","o","t">>>>,
   base |-> <<"P","a">>,
   choices |-> <<
        [unit |-> <<"P","a">>, factor |-> Dec(1, 0), offset |-> Zero],
        [unit |-> <<"k","P","a">>, factor |-> Dec(1, 3), offset |-> Zero],
        [unit |-> <<"b","a","r">>, factor |-> Dec(1, 5), offset |-> Zero],
        [unit |-> <<"a","t","m">>, factor |-> Dec(101325, 0), offset |-> Zero],
        [unit |-> <<"p","s","i">>, factor |-> Lit("6894757293", -6), offset |-> Zero]>>],
  [key |-> <<"p","A">>,   \* pA
   name |-> <<"p","a","r","t","i","a","l"," ","p","r","e","s","s","u","r","e"," ","(","A",")">>,
   aliases |-> <<<<"p","a">>, <<"p","A">>,
               <<"p","a","r","t","i","a","l"," ","p","r","e","s","s","u","r","e"," ","a">>, <<"p","_","A">>>>,
   base |-> <<"P","a">>,
   choices |-> <<
        [unit |-> <<"P","a">>, factor |-> Dec(1, 0), offset |-> Zero],
        [unit |-> <<"k","P","a">>, factor |-> Dec(1, 3), offset |-> Zero],
        [unit |-> <<"b","a","r">>, factor |-> Dec(1, 5), offset |-> Zero],
        [unit |-> <<"a","t","m">>, factor |-> Dec(101325, 0), offset |-> Zero],
        [unit |-> <<"p","s","i">>, factor |-> Lit("6894757293", -6), offset |-> Zero]>>],
  [key |-> <<"p","B">>,   \* pB
   name |-> <<"p","a","r","t","i","a","l"," ","p","r","e","s","s","u","r","e"," ","(","B",")">>,
   aliases |-> <<<<"p","b">>, <<"p","B">>,
               <<"p","a","r","t","i","a","l"," ","p","r","e","s","s","u","r","e"," ","b">>, <<"p","_","B">>>>,
   base |-> <<"P","a">>,
   choices |-> <<
        [unit |-> <<"P","a">>, factor |-> Dec(1, 0), offset |-> Zero],
        [unit |-> <<"k","P","a">>, factor |-> Dec(1, 3), offset |-> Zero],
        [unit |-> <<"b","a","r">>, factor |-> Dec(1, 5), offset |-> Zero],
        [unit |-> <<"a","t","m">>, factor |-> Dec(101325, 0), offset |-> Zero],
        [unit |-> <<"p","s","i">>, factor |-> Lit("6894757293", -6), offset |-> Zero]>>],
  [key |-> <<"p","C">>,   \* pC
   name |-> <<"p","a","r","t","i","a","l"," ","p","r","e","s","s","u","r","e"," ","(","C",")">>,
   aliases |-> <<<<"p","c">>, <<"p","C">>,
               <<"p","a","r","t","i","a","l"," ","p","r","e","s","s","u","r","e"," ","c">>, <<"p","_","C">>>>,
   base |-> <<"P","a">>,
   choices |-> <<
        [unit |-> <<"P","a">>, factor |-> Dec(1, 0), offset |-> Zero],
        [unit |-> <<"k","P","a">>, factor |-> Dec(1, 3), offset |-> Zero],
        [unit |-> <<"b","a","r">>, factor |-> Dec(1, 5), offset |-> Zero],
        [unit |-> <<"a","t","m">>, factor |-> Dec(101325, 0), offset |-> Zero],
        [unit |-> <<"p","s","i">>, factor |-> Lit("6894757293", -6), offset |-> Zero]>>],
  [key |-> <<"y","_","i">>,   \* y_i
   name |-> <<"m","o","l","e"," ","f","r","a","c","t","i","o","n"," ","(","i",")">>,
   aliases |-> <<<<"y">>, <<"y","i">>, <<"y","_","i">>, <<"m","o","l","e"," ","f","r","a","c","t","i","o","n">>,
               <<"m","o","l","e","f","r","a","c","t","i","o","n">>>>,
   base |-> <<>>,
   choices |-> <<
        [unit |-> <<>>, factor |-> Dec(1, 0), offset |-> Zero]>>],
  [key |-> <<"n","_","i">>,   \* n_i
   name |-> <<"c","o","m","p","o","n","e","n","t"," ","m","o","l","e","s"," ","(","i",")">>,
   aliases |-> <<<<"n","i">>, <<"n","_","i">>, <<"c","o","m","p","o","n","e","n","t"," ","m","o","l","e","s">>,
               <<"m","o","l","e","s"," ","i">>>>,
   base |-> <<"m","o","l">>,
   choices |-> <<
        [unit |-> <<"m","o","l">>, factor |-> Dec(1, 0), offset |-> Zero],
        [unit |-> <<"m","m","o","l">>, factor |-> Dec(1, -3), offset |-> Zero]>>],
  [key |-> <<"n","_","t","o","t","a","l">>,   \* n_total
   name |-> <<"t","o","t","a","l"," ","m","o","l","e","s">>,
   aliases |-> <<<<"n","t","o","t","a","l">>, <<"n","_","t","o","t","a","l">>,
               <<"t","o","t","a","l"," ","m","o","l","e","s">>, <<"s","u","m"," ","m","o","l","e","s">>>>,
   base |-> <<"m","o","l">>,
   choices |-> <<
        [unit |-> <<"m","o","l">>, factor |-> Dec(1, 0), offset |-> Zero],
        [unit |-> <<"m","m","o","l">>, factor |-> Dec(1, -3), offset |-> Zero]>>],
  [key |-> <<"U+0394","H","U+00B0","r","x","n">>,   \* ΔH°rxn
   name |-> <<"s","t","a","n","d","a","r","d"," ","r","e","a","c","t","i","o","n"," ","e","n","t","h","a","l","p","y">>,
   aliases |-> <<<<"d","e","l","t","a","H","r","x","n">>, <<"U+0394","H","r","x","n">>,
               <<"U+0394","H","U+00B0">>,
               <<"r","e","a","c","t","i","o","n"," ","e","n","t","h","a","l","p","y">>,
               <<"d","H","r","x","n">>, <<"d","e","l"," ","H"," ","r","x","n">>>>,
   base |-> <<"J","/","m","o","l">>,
   choices |-> <<
        [unit |-> <<"J","/","m","o","l">>, factor |-> Dec(1, 0), offset |-> Zero],
        [unit |-> <<"k","J","/","m","o","l">>, factor |-> Dec(1, 3), offset |-> Zero]>>],
  [key |-> <<"U+0394","S","U+00B0","r","x","n">>,   \* ΔS°rxn
   name |-> <<"s","t","a","n","d","a","r","d"," ","r","e","a","c","t","i","o","n"," ","e","n","t","r","o","p","y">>,
   aliases |-> <<<<"d","e","l","t","a","S","r","x","n">>, <<"U+0394","S","r","x","n">>,
               <<"r","e","a","c","t","i","o","n"," ","e","n","t","r","o","p","y">>, <<"d","S","r","x","n">>>>,
   base |-> <<"J","/","(","m","o","l","U+00B7","K",")">>,
   choices |-> <<
        [unit |-> <<"J","/","(","m","o","l","U+00B7","K",")">>, factor |-> Dec(1, 0), offset |-> Zero],
        [unit |-> <<"k","J","/","(","m","o","l","U+00B7","K",")">>, factor |-> Dec(1, 3), offset |-> Zero]>>],
  [key |-> <<"U+0394","G","U+00B0","r","x","n">>,   \* ΔG°rxn
   name |-> <<"s","t","a","n","d","a","r","d"," ","r","e","a","c","t","i","o","n"," ","G","i","b","b","s"," ","e","n","e","r","g","y">>,
   aliases |-> <<<<"d","e","l","t","a","G","r","x","n">>, <<"U+0394","G","r","x","n">>,
               <<"r","e","a","c","t","i","o","n"," ","g","i","b","b","s">>, <<"d","G","r","x","n">>,
               <<"U+0394","G","U+00B0">>>>,
   base |-> <<"J","/","m","o","l">>,
   choices |-> <<
        [unit |-> <<"J","/","m","o","l">>, factor |-> Dec(1, 0), offset |-> Zero],
        [unit |-> <<"k","J","/","m","o","l">>, factor |-> Dec(1, 3), offset |-> Zero]>>],
  [key |-> <<"U+0394","H","U+00B0","f">>,   \* ΔH°f
   name |-> <<"s","t","a","n","d","a","r","d"," ","e","n","t","h","a","l","p","y"," ","o","f"," ","f","o","r","m","a","t","i","o","n">>,
   aliases |-> <<<<"d","e","l","t","a","H","f">>, <<"U+0394","H","f">>,
               <<"f","o","r","m","a","t","i","o","n"," ","e","n","t","h","a","l","p","y">>, <<"d","H","f">>,
               <<"U+0394","H","U+00B0","f">>>>,
   base |-> <<"J","/","m","o","l">>,
   choices |-> <<
        [unit |-> <<"J","/","m","o","l">>, factor |-> Dec(1, 0), offset |-> Zero],
        [unit |-> <<"k","J","/","m","o","l">>, factor |-> Dec(1, 3), offset |-> Zero]>>],
  [key |-> <<"U+0394","G","U+00B0","f">>,   \* ΔG°f
   name |-> <<"s","t","a","n","d","a","r","d"," ","G","i","b","b","s"," ","e","n","e","r","g","y"," ","o","f"," ","f","o","r","m","a","t","i","o","n">>,
   aliases |-> <<<<"d","e","l","t","a","G","f">>, <<"U+0394","G","f">>,
               <<"f","o","r","m","a","t","i","o","n"," ","g","i","b","b","s">>, <<"d","G","f">>,
               <<"U+0394","G","U+00B0","f">>>>,
   base |-> <<"J","/","m","o","l">>,
   choices |-> <<
        [unit |-> <<"J","/","m","o","l">>, factor |-> Dec(1, 0), offset |-> Zero],
        [unit |-> <<"k","J","/","m","o","l">>, factor |-> Dec(1, 3), offset |-> Zero]>>],
  [key |-> <<"S","U+00B0">>,   \* S°
   name |-> <<"s","t","a","n","d","a","r","d"," ","m","o","l","a","r"," ","e","n","t","r","o","p","y">>,
   aliases |-> <<<<"S","s","t","d">>, <<"S","d","e","g">>,
               <<"s","t","a","n","d","a","r","d"," ","e","n","t","r","o","p","y">>,
               <<"m","o","l","a","r"," ","e","n","t","r","o","p","y">>>>,
   base |-> <<"J","/","(","m","o","l","U+00B7","K",")">>,
   choices |-> <<
        [unit |-> <<"J","/","(","m","o","l","U+00B7","K",")">>, factor |-> Dec(1, 0), offset |-> Zero],
        [unit |-> <<"k","J","/","(","m","o","l","U+00B7","K",")">>, factor |-> Dec(1, 3), offset |-> Zero]>>],
  [key |-> <<"s","u","m","_","H","f","_","p","r","o","d">>,   \* sum_Hf_prod
   name |-> <<"U+03A3","U+03BD","U+0394","H","U+00B0","f","(","p","r","o","d","u","c","t","s",")">>,
   aliases |-> <<<<"s","u","m"," ","h","f"," ","p","r","o","d","u","c","t","s">>,
               <<"U+03A3"," ","h","f"," ","p","r","o","d">>, <<"H","f"," ","s","u","m"," ","p","r","o","d">>>>,
   base |-> <<"J","/","m","o","l">>,
   choices |-> <<
        [unit |-> <<"J","/","m","o","l">>, factor |-> Dec(1, 0), offset |-> Zero],
        [unit |-> <<"k","J","/","m","o","l">>, factor |-> Dec(1, 3), offset |-> Zero]>>],
  [key |-> <<"s","u","m","_","H","f","_","r","e","a","c","t">>,   \* sum_Hf_react
   name |-> <<"U+03A3","U+03BD","U+0394","H","U+00B0","f","(","r","e","a","c","t","a","n","t","s",")">>,
   aliases |-> <<<<"s","u","m"," ","h","f"," ","r","e","a","c","t","a","n","t","s">>,
               <<"U+03A3"," ","h","f"," ","r","e","a","c","t">>,
               <<"H","f"," ","s","u","m"," ","r","e","a","c","t">>>>,
   base |-> <<"J","/","m","o","l">>,
   choices |-> <<
        [unit |-> <<"J","/","m","o","l">>, factor |-> Dec(1, 0), offset |-> Zero],
        [unit |-> <<"k","J","/","m","o","l">>, factor |-> Dec(1, 3), offset |-> Zero]>>],
  [key |-> <<"s","u","m","_","G","f","_","p","r","o","d">>,   \* sum_Gf_prod
   name |-> <<"U+03A3","U+03BD","U+0394","G","U+00B0","f","(","p","r","o","d","u","c","t","s",")">>,
   aliases |-> <<<<"s","u","m"," ","g","f"," ","p","r","o","d","u","c","t","s">>,
               <<"U+03A3"," ","g","f"," ","p","r","o","d">>, <<"G","f"," ","s","u","m"," ","p","r","o","d">>>>,
   base |-> <<"J","/","m","o","l">>,
   choices |-> <<
        [unit |-> <<"J","/","m","o","l">>, factor |-> Dec(1, 0), offset |-> Zero],
        [unit |-> <<"k","J","/","m","o","l">>, factor |-> Dec(1, 3), offset |-> Zero]>>],
  [key |-> <<"s","u","m","_","G","f","_","r","e","a","c","t">>,   \* sum_Gf_react
   name |-> <<"U+03A3","U+03BD","U+0394","G","U+00B0","f","(","r","e","a","c","t","a","n","t","s",")">>,
   aliases |-> <<<<"s","u","m"," ","g","f"," ","r","e","a","c","t","a","n","t","s">>,
               <<"U+03A3"," ","g","f"," ","r","e","a","c","t">>,
               <<"G","f"," ","s","u","m"," ","r","e","a","c","t">>>>,
   base |-> <<"J","/","m","o","l">>,
   choices |-> <<
        [unit |-> <<"J","/","m","o","l">>, factor |-> Dec(1, 0), offset |-> Zero],
        [unit |-> <<"k","J","/","m","o","l">>, factor |-> Dec(1, 3), offset |-> Zero]>>],
  [key |-> <<"s","u","m","_","S","_","p","r","o","d">>,   \* sum_S_prod
   name |-> <<"U+03A3","U+03BD","S","U+00B0","(","p","r","o","d","u","c","t","s",")">>,
   aliases |-> <<<<"s","u","m"," ","S"," ","p","r","o","d","u","c","t","s">>,
               <<"U+03A3"," ","S"," ","p","r","o","d">>,
               <<"e","n","t","r","o","p","y"," ","s","u","m"," ","p","r","o","d">>>>,
   base |-> <<"J","/","(","m","o","l","U+00B7","K",")">>,
   choices |-> <<
        [unit |-> <<"J","/","(","m","o","l","U+00B7","K",")">>, factor |-> Dec(1, 0), offset |-> Zero],
        [unit |-> <<"k","J","/","(","m","o","l","U+00B7","K",")">>, factor |-> Dec(1, 3), offset |-> Zero]>>],
  [key |-> <<"s","u","m","_","S","_","r","e","a","c","t">>,   \* sum_S_react
   name |-> <<"U+03A3","U+03BD","S","U+00B0","(","r","e","a","c","t","a","n","t","s",")">>,
   aliases |-> <<<<"s","u","m"," ","S"," ","r","e","a","c","t","a","n","t","s">>,
               <<"U+03A3"," ","S"," ","r","e","a","c","t">>,
               <<"e","n","t","r","o","p","y"," ","s","u","m"," ","r","e","a","c","t">>>>,
   base |-> <<"J","/","(","m","o","l","U+00B7","K",")">>,
   choices |-> <<
        [unit |-> <<"J","/","(","m","o","l","U+00B7","K",")">>, factor |-> Dec(1, 0), offset |-> Zero],
        [unit |-> <<"k","J","/","(","m","o","l","U+00B7","K",")">>, factor |-> Dec(1, 3), offset |-> Zero]>>],
  [key |-> <<"K">>,   \* K
   name |-> <<"e","q","u","i","l","i","b","r","i","u","m"," ","c","o","n","s","t","a","n","t">>,
   aliases |-> <<<<"e","q","u","i","l","i","b","r","i","u","m"," ","c","o","n","s","t","a","n","t">>,
               <<"K","_","e","q">>, <<"K","e","q">>>>,
   base |-> <<>>,
   choices |-> <<
        [unit |-> <<>>, factor |-> Dec(1, 0), offset |-> Zero]>>],
  [key |-> <<"l","n","K">>,   \* lnK
   name |-> <<"n","a","t","u","r","a","l"," ","l","o","g"," ","o","f"," ","K">>,
   aliases |-> <<<<"l","n"," ","K">>, <<"l","o","g"," ","K">>, <<"l","o","g","_","e"," ","K">>>>,
   base |-> <<>>,
   choices |-> <<
        [unit |-> <<>>, factor |-> Dec(1, 0), offset |-> Zero]>>],
  [key |-> <<"U+03BE">>,   \* ξ
   name |-> <<"e","x","t","e","n","t"," ","o","f"," ","r","e","a","c","t","i","o","n">>,
   aliases |-> <<<<"x","i">>, <<"e","x","t","e","n","t">>, <<"n","_","r","x","n">>,
               <<"n"," ","r","e","a","c","t","i","o","n">>>>,
   base |-> <<"m","o","l">>,
   choices |-> <<
        [unit |-> <<"m","o","l">>, factor |-> Dec(1, 0), offset |-> Zero],
        [unit |-> <<"m","m","o","l">>, factor |-> Dec(1, -3), offset |-> Zero]>>],
  [key |-> <<"U+03BD","_","i">>,   \* ν_i
   name |-> <<"s","t","o","i","c","h","i","o","m","e","t","r","i","c"," ","c","o","e","f","f","i","c","i","e","n","t"," ","(","i",")">>,
   aliases |-> <<<<"n","u","_","i">>, <<"n","u">>, <<"s","t","o","i","c","h"," ","i">>,
               <<"s","t","o","i","c","h","i","o","m","e","t","r","i","c"," ","c","o","e","f","f","i","c","i","e","n","t">>>>,
   base |-> <<>>,
   choices |-> <<
        [unit |-> <<>>, factor |-> Dec(1, 0), offset |-> Zero]>>],
  [key |-> <<"q","_","r","x","n">>,   \* q_rxn
   name |-> <<"h","e","a","t"," ","o","f"," ","r","e","a","c","t","i","o","n"," ","(","s","y","s","t","e","m",")">>,
   aliases |-> <<<<"q","_","r","x","n">>, <<"q","(","r","e","a","c","t","i","o","n",")">>,
               <<"r","e","a","c","t","i","o","n"," ","h","e","a","t">>,
               <<"q"," ","r","e","a","c","t","i","o","n">>, <<"q">>>>,
   base |-> <<"J">>,
   choices |-> <<
        [unit |-> <<"J">>, factor |-> Dec(1, 0), offset |-> Zero],
        [unit |-> <<"k","J">>, factor |-> Dec(1, 3), offset |-> Zero]>>],
  [key |-> <<"U+0394","H","_","v","a","p">>,   \* ΔH_vap
   name |-> <<"e","n","t","h","a","l","p","y"," ","o","f"," ","v","a","p","o","r","i","z","a","t","i","o","n">>,
   aliases |-> <<<<"H","v","a","p">>, <<"d","e","l","t","a","H","v","a","p">>, <<"U+0394","H","v","a","p">>,
               <<"e","n","t","h","a","l","p","y"," ","v","a","p","o","r","i","z","a","t","i","o","n">>>>,
   base |-> <<"J","/","m","o","l">>,
   choices |-> <<
        [unit |-> <<"J","/","m","o","l">>, factor |-> Dec(1, 0), offset |-> Zero],
        [unit |-> <<"k","J","/","m","o","l">>, factor |-> Dec(1, 3), offset |-> Zero]>>],
  [key |-> <<"U+0394","H","_","f","u","s">>,   \* ΔH_fus
   name |-> <<"e","n","t","h","a","l","p","y"," ","o","f"," ","f","u","s","i","o","n">>,
   aliases |-> <<<<"H","f","u","s">>, <<"d","e","l","t","a","H","f","u","s">>, <<"U+0394","H","f","u","s">>,
               <<"e","n","t","h","a","l","p","y"," ","f","u","s","i","o","n">>>>,
   base |-> <<"J","/","m","o","l">>,
   choices |-> <<
        [unit |-> <<"J","/","m","o","l">>, factor |-> Dec(1, 0), offset |-> Zero],
        [unit |-> <<"k","J","/","m","o","l">>, factor |-> Dec(1, 3), offset |-> Zero]>>],
  [key |-> <<"U+0394","H","U+00B0","f","_","g","a","s">>,   \* ΔH°f_gas
   name |-> <<"s","t","a","n","d","a","r","d"," ","e","n","t","h","a","l","p","y"," ","o","f"," ","f","o","r","m","a","t","i","o","n"," ","(","g","a","s",")">>,
   aliases |-> <<<<"H","f"," ","g","a","s">>, <<"d","e","l","t","a","H","f"," ","g","a","s">>,
               <<"U+0394","H","f","(","g",")">>, <<"U+0394","H","U+00B0","f","(","g",")">>,
               <<"H","f","_","g","a","s">>>>,
   base |-> <<"J","/","m","o","l">>,
   choices |-> <<
        [unit |-> <<"J","/","m","o","l">>, factor |-> Dec(1, 0), offset |-> Zero],
        [unit |-> <<"k","J","/","m","o","l">>, factor |-> Dec(1, 3), offset |-> Zero]>>],
  [key |-> <<"U+0394","H","U+00B0","f","_","l","i","q">>,   \* ΔH°f_liq
   name |-> <<"s","t","a","n","d","a","r","d"," ","e","n","t","h","a","l","p","y"," ","o","f"," ","f","o","r","m","a","t","i","o","n"," ","(","l","i","q","u","i","d",")">>,
   aliases |-> <<<<"H","f"," ","l","i","q">>, <<"d","e","l","t","a","H","f"," ","l","i","q">>,
               <<"U+0394","H","f","(","l",")">>, <<"U+0394","H","U+00B0","f","(","l",")">>,
               <<"H","f","_","l","i","q">>>>,
   base |-> <<"J","/","m","o","l">>,
   choices |-> <<
        [unit |-> <<"J","/","m","o","l">>, factor |-> Dec(1, 0), offset |-> Zero],
        [unit |-> <<"k","J","/","m","o","l">>, factor |-> Dec(1, 3), offset |-> Zero]>>],
  [key |-> <<"U+03BD","_","f","r","e","q">>,   \* ν_freq
   name |-> <<"f","r","e","q","u","e","n","c","y">>,
   aliases |-> <<<<"n","u">>, <<"v","_","f","r","e","q">>, <<"f","r","e","q">>,
               <<"f","r","e","q","u","e","n","c","y">>, <<"f">>>>,
   base |-> <<"H","z">>,
   choices |-> <<
        [unit |-> <<"H","z">>, factor |-> Dec(1, 0), offset |-> Zero],
        [unit |-> <<"k","H","z">>, factor |-> Dec(1, 3), offset |-> Zero],
        [unit |-> <<"M","H","z">>, factor |-> Dec(1, 6), offset |-> Zero],
        [unit |-> <<"G","H","z">>, factor |-> Dec(1, 9), offset |-> Zero],
        [unit |-> <<"T","H","z">>, factor |-> Dec(1, 12), offset |-> Zero]>>],
  [key |-> <<"U+03BB">>,   \* λ
   name |-> <<"w","a","v","e","l","e","n","g","t","h">>,
   aliases |-> <<<<"l","a","m","b","d","a">>, <<"w","a","v","e","l","e","n","g","t","h">>, <<"l","a","m">>>>,
   base |-> <<"m">>,
   choices |-> <<
        [unit |-> <<"m">>, factor |-> Dec(1, 0), offset |-> Zero],
        [unit |-> <<"n","m">>, factor |-> Dec(1, -9), offset |-> Zero],
        [unit |-> <<"U+00C5">>, factor |-> Dec(1, -10), offset |-> Zero],
        [unit |-> <<"p","m">>, factor |-> Dec(1, -12), offset |-> Zero]>>],
  [key |-> <<"h","_","p","l","a","n","c","k">>,   \* h_planck
   name |-> <<"P","l","a","n","c","k"," ","c","o","n","s","t","a","n","t">>,
   aliases |-> <<<<"h">>, <<"p","l","a","n","c","k">>,
               <<"p","l","a","n","c","k"," ","c","o","n","s","t","a","n","t">>>>,
   base |-> <<"J","U+00B7","s">>,
   choices |-> <<
        [unit |-> <<"J","U+00B7","s">>, factor |-> Dec(1, 0), offset |-> Zero]>>],
  [key |-> <<"c","0">>,   \* c0
   name |-> <<"s","p","e","e","d"," ","o","f"," ","l","i","g","h","t">>,
   aliases |-> <<<<"c">>, <<"l","i","g","h","t","s","p","e","e","d">>,
               <<"s","p","e","e","d"," ","o","f"," ","l","i","g","h","t">>>>,
   base |-> <<"m","/","s">>,
   choices |-> <<
        [unit |-> <<"m","/","s">>, factor |-> Dec(1, 0), offset |-> Zero]>>],
  [key |-> <<"E","_","p","h">>,   \* E_ph
   name |-> <<"p","h","o","t","o","n"," ","e","n","e","r","g","y">>,
   aliases |-> <<<<"E">>, <<"E","_","p","h">>, <<"p","h","o","t","o","n"," ","e","n","e","r","g","y">>,
               <<"e","n","e","r","g","y"," ","p","h","o","t","o","n">>>>,
   base |-> <<"J">>,
   choices |-> <<
        [unit |-> <<"J">>, factor |-> Dec(1, 0), offset |-> Zero],
        [unit |-> <<"k","J">>, factor |-> Dec(1, 3), offset |-> Zero],
        [unit |-> <<"e","V">>, factor |-> Lit("1602176634", -28), offset |-> Zero],
        [unit |-> <<"k","e","V">>, factor |-> Lit("1602176634", -25), offset |-> Zero]>>],
  [key |-> <<"Z">>,   \* Z
   name |-> <<"a","t","o","m","i","c"," ","n","u","m","b","e","r"," ","(","Z",")">>,
   aliases |-> <<<<"Z">>, <<"a","t","o","m","i","c"," ","n","u","m","b","e","r">>,
               <<"c","h","a","r","g","e"," ","n","u","m","b","e","r">>>>,
   base |-> <<>>,
   choices |-> <<
        [unit |-> <<>>, factor |-> Dec(1, 0), offset |-> Zero]>>],
  [key |-> <<"n","1">>,   \* n1
   name |-> <<"l","o","w","e","r"," ","p","r","i","n","c","i","p","a","l"," ","q","u","a","n","t","u","m"," ","n","u","m","b","e","r">>,
   aliases |-> <<<<"n","1">>, <<"n"," ","l","o","w","e","r">>, <<"n"," ","i","n","i","t","i","a","l">>>>,
   base |-> <<>>,
   choices |-> <<
        [unit |-> <<>>, factor |-> Dec(1, 0), offset |-> Zero]>>],
  [key |-> <<"n","2">>,   \* n2
   name |-> <<"u","p","p","e","r"," ","p","r","i","n","c","i","p","a","l"," ","q","u","a","n","t","u","m"," ","n","u","m","b","e","r">>,
   aliases |-> <<<<"n","2">>, <<"n"," ","u","p","p","e","r">>, <<"n"," ","f","i","n","a","l">>>>,
   base |-> <<>>,
   choices |-> <<
        [unit |-> <<>>, factor |-> Dec(1, 0), offset |-> Zero]>>],
  [key |-> <<"U+0394","E">>,   \* ΔE
   name |-> <<"t","r","a","n","s","i","t","i","o","n"," ","e","n","e","r","g","y">>,
   aliases |-> <<<<"d","E">>, <<"d","e","l","t","a","E">>,
               <<"t","r","a","n","s","i","t","i","o","n"," ","e","n","e","r","g","y">>>>,
   base |-> <<"J">>,
   choices |-> <<
        [unit |-> <<"J">>, factor |-> Dec(1, 0), offset |-> Zero],
        [unit |-> <<"e","V">>, factor |-> Lit("1602176634", -28), offset |-> Zero],
        [unit |-> <<"k","e","V">>, factor |-> Lit("1602176634", -25), offset |-> Zero]>>],
  [key |-> <<"R","U+221E">>,   \* R∞
   name |-> <<"R","y","d","b","e","r","g"," ","c","o","n","s","t","a","n","t"," ","(","U+221E"," ","m","a","s","s",")">>,
   aliases |-> <<<<"R","i","n","f">>, <<"R","y","d","b","e","r","g">>,
               <<"R","y","d","b","e","r","g"," ","c","o","n","s","t","a","n","t">>>>,
   base |-> <<"1","/","m">>,
   choices |-> <<
        [unit |-> <<"1","/","m">>, factor |-> Dec(1, 0), offset |-> Zero]>>],
  [key |-> <<"t","h","e","t","a">>,   \* theta
   name |-> <<"B","r","a","g","g"," ","a","n","g","l","e"," ","U+03B8">>,
   aliases |-> <<<<"U+03B8">>, <<"t","h","e","t","a">>, <<"b","r","a","g","g"," ","a","n","g","l","e">>,
               <<"t","h">>>>,
   base |-> <<"r","a","d">>,
   choices |-> <<
        [unit |-> <<"r","a","d">>, factor |-> Dec(1, 0), offset |-> Zero],
        [unit |-> <<"d","e","g">>, factor |-> Lit("17453292519943295", -18), offset |-> Zero]>>],
  [key |-> <<"t","w","o","_","t","h","e","t","a">>,   \* two_theta
   name |-> <<"d","i","f","f","r","a","c","t","i","o","n"," ","a","n","g","l","e"," ","2","U+03B8">>,
   aliases |-> <<<<"2","U+03B8">>, <<"2","t","h","e","t","a">>, <<"t","w","o"," ","t","h","e","t","a">>>>,
   base |-> <<"r","a","d">>,
   choices |-> <<
        [unit |-> <<"r","a","d">>, factor |-> Dec(1, 0), offset |-> Zero],
        [unit |-> <<"d","e","g">>, factor |-> Lit("17453292519943295", -18), offset |-> Zero]>>],
  [key |-> <<"d","_","s","p","a","c","i","n","g">>,   \* d_spacing
   name |-> <<"i","n","t","e","r","p","l","a","n","a","r"," ","s","p","a","c","i","n","g"," ","d">>,
   aliases |-> <<<<"d">>, <<"d","-","s","p","a","c","i","n","g">>,
               <<"i","n","t","e","r","p","l","a","n","a","r"," ","s","p","a","c","i","n","g">>>>,
   base |-> <<"m">>,
   choices |-> <<
        [unit |-> <<"m">>, factor |-> Dec(1, 0), offset |-> Zero],
        [unit |-> <<"n","m">>, factor |-> Dec(1, -9), offset |-> Zero],
        [unit |-> <<"U+00C5">>, factor |-> Dec(1, -10), offset |-> Zero],
        [unit |-> <<"p","m">>, factor |-> Dec(1, -12), offset |-> Zero]>>],
  [key |-> <<"a","_","c","u","b","i","c">>,   \* a_cubic
   name |-> <<"c","u","b","i","c"," ","l","a","t","t","i","c","e"," ","p","a","r","a","m","e","t","e","r"," ","a">>,
   aliases |-> <<<<"a">>, <<"l","a","t","t","i","c","e"," ","p","a","r","a","m","e","t","e","r">>,
               <<"l","a","t","t","i","c","e"," ","c","o","n","s","t","a","n","t">>>>,
   base |-> <<"m">>,
   choices |-> <<
        [unit |-> <<"m">>, factor |-> Dec(1, 0), offset |-> Zero],
        [unit |-> <<"n","m">>, factor |-> Dec(1, -9), offset |-> Zero],
        [unit |-> <<"U+00C5">>, factor |-> Dec(1, -10), offset |-> Zero],
        [unit |-> <<"p","m">>, factor |-> Dec(1, -12), offset |-> Zero]>>],
  [key |-> <<"n","_","b","r","a","g","g">>,   \* n_bragg
   name |-> <<"B","r","a","g","g"," ","o","r","d","e","r">>,
   aliases |-> <<<<"o","r","d","e","r">>, <<"b","r","a","g","g"," ","o","r","d","e","r">>,
               <<"n","_","b","r","a","g","g">>>>,
   base |-> <<>>,
   choices |-> <<
        [unit |-> <<>>, factor |-> Dec(1, 0), offset |-> Zero]>>],
  [key |-> <<"h","_","m","i">>,   \* h_mi
   name |-> <<"M","i","l","l","e","r"," ","i","n","d","e","x"," ","h">>,
   aliases |-> <<<<"h","_","m","i">>, <<"m","i","l","l","e","r"," ","h">>, <<"h","(","i","n","d","e","x",")">>>>,
   base |-> <<>>,
   choices |-> <<
        [unit |-> <<>>, factor |-> Dec(1, 0), offset |-> Zero]>>],
  [key |-> <<"k","_","m","i">>,   \* k_mi
   name |-> <<"M","i","l","l","e","r"," ","i","n","d","e","x"," ","k">>,
   aliases |-> <<<<"k","_","m","i">>, <<"m","i","l","l","e","r"," ","k">>, <<"k","(","i","n","d","e","x",")">>>>,
   base |-> <<>>,
   choices |-> <<
        [unit |-> <<>>, factor |-> Dec(1, 0), offset |-> Zero]>>],
  [key |-> <<"l","_","m","i">>,   \* l_mi
   name |-> <<"M","i","l","l","e","r"," ","i","n","d","e","x"," ","l">>,
   aliases |-> <<<<"l","_","m","i">>, <<"m","i","l","l","e","r"," ","l">>, <<"l","(","i","n","d","e","x",")">>>>,
   base |-> <<>>,
   choices |-> <<
        [unit |-> <<>>, factor |-> Dec(1, 0), offset |-> Zero]>>],
  [key |-> <<"q","_","s","c","a","t">>,   \* q_scat
   name |-> <<"s","c","a","t","t","e","r","i","n","g"," ","v","e","c","t","o","r"," ","m","a","g","n","i","t","u","d","e"," ","q">>,
   aliases |-> <<<<"q">>, <<"q","_","s","c","a","t">>,
               <<"s","c","a","t","t","e","r","i","n","g"," ","v","e","c","t","o","r">>>>,
   base |-> <<"1","/","m">>,
   choices |-> <<
        [unit |-> <<"1","/","m">>, factor |-> Dec(1, 0), offset |-> Zero],
        [unit |-> <<"U+00C5","U+207B","U+00B9">>, factor |-> Dec(1, 10), offset |-> Zero],
        [unit |-> <<"1","/","U+00C5">>, factor |-> Dec(1, 10), offset |-> Zero]>>],
  [key |-> <<"s","_","r","e","c","i","p">>,   \* s_recip
   name |-> <<"r","e","c","i","p","r","o","c","a","l"," ","s","p","a","c","i","n","g"," ","s"," ","="," ","1","/","d">>,
   aliases |-> <<<<"s">>, <<"s","_","r","e","c","i","p">>, <<"1","/","d">>,
               <<"r","e","c","i","p","r","o","c","a","l"," ","s","p","a","c","i","n","g">>>>,
   base |-> <<"1","/","m">>,
   choices |-> <<
        [unit |-> <<"1","/","m">>, factor |-> Dec(1, 0), offset |-> Zero],
        [unit |-> <<"U+00C5","U+207B","U+00B9">>, factor |-> Dec(1, 10), offset |-> Zero],
        [unit |-> <<"1","/","U+00C5">>, factor |-> Dec(1, 10), offset |-> Zero]>>],
  [key |-> <<"x","_","i","_","l","i","q">>,   \* x_i_liq
   name |-> <<"m","o","l","e"," ","f","r","a","c","t","i","o","n"," ","(","l","i","q","u","i","d",","," ","i",")">>,
   aliases |-> <<<<"x","_","i">>, <<"x","(","l","i","q",")">>,
               <<"m","o","l","e"," ","f","r","a","c","t","i","o","n"," ","l","i","q","u","i","d">>, <<"x">>>>,
   base |-> <<>>,
   choices |-> <<
        [unit |-> <<>>, factor |-> Dec(1, 0), offset |-> Zero]>>],
  [key |-> <<"y","_","i","_","g","a","s">>,   \* y_i_gas
   name |-> <<"m","o","l","e"," ","f","r","a","c","t","i","o","n"," ","(","g","a","s",","," ","i",")">>,
   aliases |-> <<<<"y","_","i">>, <<"y","(","g","a","s",")">>,
               <<"m","o","l","e"," ","f","r","a","c","t","i","o","n"," ","g","a","s">>, <<"y">>>>,
   base |-> <<>>,
   choices |-> <<
        [unit |-> <<>>, factor |-> Dec(1, 0), offset |-> Zero]>>],
  [key |-> <<"P","_","s","a","t","_","i">>,   \* P_sat_i
   name |-> <<"p","u","r","e","-","c","o","m","p","o","n","e","n","t"," ","v","a","p","o","r"," ","p","r","e","s","s","u","r","e"," ","(","i",")">>,
   aliases |-> <<<<"P","*","_","i">>, <<"P","s","a","t">>, <<"P","s","a","t","_","i">>,
               <<"v","a","p","o","u","r"," ","p","r","e","s","s","u","r","e"," ","i">>>>,
   base |-> <<"P","a">>,
   choices |-> <<
        [unit |-> <<"P","a">>, factor |-> Dec(1, 0), offset |-> Zero],
        [unit |-> <<"k","P","a">>, factor |-> Dec(1, 3), offset |-> Zero],
        [unit |-> <<"b","a","r">>, factor |-> Dec(1, 5), offset |-> Zero],
        [unit |-> <<"a","t","m">>, factor |-> Dec(101325, 0), offset |-> Zero]>>],
  [key |-> <<"p","_","i">>,   \* p_i
   name |-> <<"p","a","r","t","i","a","l"," ","p","r","e","s","s","u","r","e"," ","(","i",")">>,
   aliases |-> <<<<"p","_","i">>, <<"p","a","r","t","i","a","l"," ","p","r","e","s","s","u","r","e"," ","i">>>>,
   base |-> <<"P","a">>,
   choices |-> <<
        [unit |-> <<"P","a">>, factor |-> Dec(1, 0), offset |-> Zero],
        [unit |-> <<"k","P","a">>, factor |-> Dec(1, 3), offset |-> Zero],
        [unit |-> <<"b","a","r">>, factor |-> Dec(1, 5), offset |-> Zero],
        [unit |-> <<"a","t","m">>, factor |-> Dec(101325, 0), offset |-> Zero]>>],
  [key |-> <<"P","_","v","a","p","_","t","o","t","a","l">>,   \* P_vap_total
   name |-> <<"t","o","t","a","l"," ","v","a","p","o","r"," ","p","r","e","s","s","u","r","e"," ","(","m","i","x","t","u","r","e",")">>,
   aliases |-> <<<<"P","_","t","o","t","a","l","_","v","a","p">>, <<"P","t",",","v","a","p">>,
               <<"v","a","p","o","u","r"," ","p","r","e","s","s","u","r","e"," ","t","o","t","a","l">>>>,
   base |-> <<"P","a">>,
   choices |-> <<
        [unit |-> <<"P","a">>, factor |-> Dec(1, 0), offset |-> Zero],
        [unit |-> <<"k","P","a">>, factor |-> Dec(1, 3), offset |-> Zero],
        [unit |-> <<"b","a","r">>, factor |-> Dec(1, 5), offset |-> Zero],
        [unit |-> <<"a","t","m">>, factor |-> Dec(101325, 0), offset |-> Zero]>>],
  [key |-> <<"k","H","_","P","x">>,   \* kH_Px
   name |-> <<"H","e","n","r","y"," ","c","o","n","s","t","a","n","t"," ","(","p"," ","="," ","k","H","U+00B7","x",")">>,
   aliases |-> <<<<"k","H">>, <<"k","_","H">>, <<"h","e","n","r","y"," ","c","o","n","s","t","a","n","t">>,
               <<"k","H","(","p","x",")">>>>,
   base |-> <<"P","a">>,
   choices |-> <<
        [unit |-> <<"P","a">>, factor |-> Dec(1, 0), offset |-> Zero],
        [unit |-> <<"k","P","a">>, factor |-> Dec(1, 3), offset |-> Zero],
        [unit |-> <<"b","a","r">>, factor |-> Dec(1, 5), offset |-> Zero],
        [unit |-> <<"a","t","m">>, factor |-> Dec(101325, 0), offset |-> Zero]>>],
  [key |-> <<"k","H","_","c","P">>,   \* kH_cP
   name |-> <<"H","e","n","r","y"," ","c","o","n","s","t","a","n","t"," ","(","c"," ","="," ","k","H","U+00B7","p",")">>,
   aliases |-> <<<<"k","H","(","c","p",")">>, <<"h","e","n","r","y"," ","c","=","p","*","k">>,
               <<"s","o","l","u","b","i","l","i","t","y"," ","c","o","n","s","t","a","n","t">>>>,
   base |-> <<"m","o","l","/","(","m","U+00B3","U+00B7","P","a",")">>,
   choices |-> <<
        [unit |-> <<"m","o","l","/","(","m","U+00B3","U+00B7","P","a",")">>, factor |-> Dec(1, 0), offset |-> Zero],
        [unit |-> <<"m","o","l","/","(","L","U+00B7","a","t","m",")">>, factor |-> Lit("9869232667160128", -24), offset |-> Zero]>>],
  [key |-> <<"i","_","v","H">>,   \* i_vH
   name |-> <<"v","a","n"," ","U+2019","t"," ","H","o","f","f"," ","f","a","c","t","o","r">>,
   aliases |-> <<<<"i">>, <<"v","a","n","t"," ","h","o","f","f"," ","f","a","c","t","o","r">>,
               <<"v","a","n","'","t"," ","h","o","f","f"," ","f","a","c","t","o","r">>>>,
   base |-> <<>>,
   choices |-> <<
        [unit |-> <<>>, factor |-> Dec(1, 0), offset |-> Zero]>>],
  [key |-> <<"m","_","m","o","l","a","l">>,   \* m_molal
   name |-> <<"m","o","l","a","l","i","t","y">>,
   aliases |-> <<<<"m","o","l","a","l","i","t","y">>, <<"m"," ","(","m","o","l","a","l",")">>, <<"b">>>>,
   base |-> <<"m","o","l","/","k","g">>,
   choices |-> <<
        [unit |-> <<"m","o","l","/","k","g">>, factor |-> Dec(1, 0), offset |-> Zero]>>],
  [key |-> <<"K","b">>,   \* Kb
   name |-> <<"e","b","u","l","l","i","o","s","c","o","p","i","c"," ","c","o","n","s","t","a","n","t">>,
   aliases |-> <<<<"K","b">>, <<"K","_","b">>, <<"e","b","u","l","l","i","o","s","c","o","p","i","c">>>>,
   base |-> <<"K","U+00B7","k","g","/","m","o","l">>,
   choices |-> <<
        [unit |-> <<"K","U+00B7","k","g","/","m","o","l">>, factor |-> Dec(1, 0), offset |-> Zero]>>],
  [key |-> <<"K","f">>,   \* Kf
   name |-> <<"c","r","y","o","s","c","o","p","i","c"," ","c","o","n","s","t","a","n","t">>,
   aliases |-> <<<<"K","f">>, <<"K","_","f">>, <<"c","r","y","o","s","c","o","p","i","c">>>>,
   base |-> <<"K","U+00B7","k","g","/","m","o","l">>,
   choices |-> <<
        [unit |-> <<"K","U+00B7","k","g","/","m","o","l">>, factor |-> Dec(1, 0), offset |-> Zero]>>],
  [key |-> <<"U+0394","T","b">>,   \* ΔTb
   name |-> <<"b","o","i","l","i","n","g","-","p","o","i","n","t"," ","e","l","e","v","a","t","i","o","n">>,
   aliases |-> <<<<"d","e","l","t","a"," ","T","b">>, <<"U+0394","T","_","b">>>>,
   base |-> <<"K">>,
   choices |-> <<
        [unit |-> <<"K">>, factor |-> Dec(1, 0), offset |-> Zero],
        [unit |-> <<"U+00B0","C">>, factor |-> Dec(1, 0), offset |-> Zero]>>],
  [key |-> <<"U+0394","T","f">>,   \* ΔTf
   name |-> <<"f","r","e","e","z","i","n","g","-","p","o","i","n","t"," ","d","e","p","r","e","s","s","i","o","n">>,
   aliases |-> <<<<"d","e","l","t","a"," ","T","f">>, <<"U+0394","T","_","f">>>>,
   base |-> <<"K">>,
   choices |-> <<
        [unit |-> <<"K">>, factor |-> Dec(1, 0), offset |-> Zero],
        [unit |-> <<"U+00B0","C">>, factor |-> Dec(1, 0), offset |-> Zero]>>],
  [key |-> <<"U+03C0","_","o","s","m">>,   \* π_osm
   name |-> <<"o","s","m","o","t","i","c"," ","p","r","e","s","s","u","r","e">>,
   aliases |-> <<<<"p","i">>, <<"o","s","m","o","t","i","c"," ","p","r","e","s","s","u","r","e">>, <<"U+03C0">>>>,
   base |-> <<"P","a">>,
   choices |-> <<
        [unit |-> <<"P","a">>, factor |-> Dec(1, 0), offset |-> Zero],
        [unit |-> <<"k","P","a">>, factor |-> Dec(1, 3), offset |-> Zero],
        [unit |-> <<"b","a","r">>, factor |-> Dec(1, 5), offset |-> Zero],
        [unit |-> <<"a","t","m">>, factor |-> Dec(101325, 0), offset |-> Zero]>>],
  [key |-> <<"c","_","t","o","t","a","l","_","i","o","n","s">>,   \* c_total_ions
   name |-> <<"t","o","t","a","l"," ","i","o","n"," ","c","o","n","c","e","n","t","r","a","t","i","o","n">>,
   aliases |-> <<<<"i","o","n"," ","t","o","t","a","l"," ","c","o","n","c">>,
               <<"t","o","t","a","l"," ","i","o","n","s">>>>,
   base |-> <<"m","o","l","/","L">>,
   choices |-> <<
        [unit |-> <<"m","o","l","/","L">>, factor |-> Dec(1, 0), offset |-> Zero],
        [unit |-> <<"m","m","o","l","/","L">>, factor |-> Dec(1, -3), offset |-> Zero]>>],
  [key |-> <<"r","_","p","a","r","t">>,   \* r_part
   name |-> <<"p","a","r","t","i","c","l","e"," ","r","a","d","i","u","s">>,
   aliases |-> <<<<"r","a","d","i","u","s">>, <<"p","a","r","t","i","c","l","e"," ","r","a","d","i","u","s">>,
               <<"r","_","p","a","r","t">>, <<"r","_","s","p","h","e","r","e">>>>,
   base |-> <<"m">>,
   choices |-> <<
        [unit |-> <<"m">>, factor |-> Dec(1, 0), offset |-> Zero],
        [unit |-> <<"n","m">>, factor |-> Dec(1, -9), offset |-> Zero],
        [unit |-> <<"U+00C5">>, factor |-> Dec(1, -10), offset |-> Zero],
        [unit |-> <<"p","m">>, factor |-> Dec(1, -12), offset |-> Zero]>>],
  [key |-> <<"M","_","m","o","l","a","r">>,   \* M_molar
   name |-> <<"m","o","l","a","r"," ","m","a","s","s">>,
   aliases |-> <<<<"M">>, <<"m","o","l","a","r"," ","m","a","s","s">>, <<"M","W">>, <<"M","r">>,
               <<"m","o","l","e","c","u","l","a","r"," ","w","e","i","g","h","t">>>>,
   base |-> <<"k","g","/","m","o","l">>,
   choices |-> <<
        [unit |-> <<"k","g","/","m","o","l">>, factor |-> Dec(1, 0), offset |-> Zero],
        [unit |-> <<"g","/","m","o","l">>, factor |-> Dec(1, -3), offset |-> Zero]>>],
  [key |-> <<"N","_","A">>,   \* N_A
   name |-> <<"A","v","o","g","a","d","r","o"," ","c","o","n","s","t","a","n","t">>,
   aliases |-> <<<<"N","A">>, <<"N","_","A">>, <<"a","v","o","g","a","d","r","o">>,
               <<"a","v","o","g","a","d","r","o"," ","c","o","n","s","t","a","n","t">>>>,
   base |-> <<"1","/","m","o","l">>,
   choices |-> <<
        [unit |-> <<"1","/","m","o","l">>, factor |-> Dec(1, 0), offset |-> Zero]>>],
  [key |-> <<"N">>,   \* N
   name |-> <<"n","u","m","b","e","r"," ","o","f"," ","p","a","r","t","i","c","l","e","s">>,
   aliases |-> <<<<"N">>, <<"a","t","o","m","s">>, <<"m","o","l","e","c","u","l","e","s">>,
               <<"c","o","u","n","t">>, <<"#"," ","p","a","r","t","i","c","l","e","s">>>>,
   base |-> <<>>,
   choices |-> <<
        [unit |-> <<>>, factor |-> Dec(1, 0), offset |-> Zero]>>]
>>
\* CONSTANTS, in the dict's order: symbol and value.
CONSTANTS_TABLE == <<
  \* R = 8.314462618
  [key |-> <<"R">>, value |-> Lit("8314462618", -9)],
  \* h = 6.62607015e-34
  [key |-> <<"h">>, value |-> Lit("662607015", -42)],
  \* c = 299792458.0
  [key |-> <<"c">>, value |-> Lit("299792458", 0)],
  \* e = 1.602176634e-19
  [key |-> <<"e">>, value |-> Lit("1602176634", -28)],
  \* R∞ = 10973731.56816
  [key |-> <<"R","U+221E">>, value |-> Lit("1097373156816", -5)],
  \* E_H = 13.605693122994
  [key |-> <<"E","_","H">>, value |-> Lit("13605693122994", -12)],
  \* λ_CuKα = 1.5406e-10
  [key |-> <<"U+03BB","_","C","u","K","U+03B1">>, value |-> Dec(15406, -14)],
  \* λ_CuKα1 = 1.54059e-10
  [key |-> <<"U+03BB","_","C","u","K","U+03B1","1">>, value |-> Dec(154059, -15)],
  \* λ_CuKα2 = 1.54443e-10
  [key |-> <<"U+03BB","_","C","u","K","U+03B1","2">>, value |-> Dec(154443, -15)],
  \* λ_MoKα = 7.093e-11
  [key |-> <<"U+03BB","_","M","o","K","U+03B1">>, value |-> Dec(7093, -14)]
>>
\* EQUATIONS: key, display name, variables (declaration order) and the targets that have a solver.
EQUATIONS == <<
  [key |-> "specific_heat",
   name |-> <<"S","p","e","c","i","f","i","c"," ","H","e","a","t"," ","C","a","p","a","c","i","t","y">>,   \* Specific Heat Capacity
   variables |-> <<<<"Q">>, <<"m">>, <<"c">>, <<"U+0394","T">>>>,
   solve |-> <<<<"Q">>, <<"m">>, <<"c">>, <<"U+0394","T">>>>],
  [key |-> "ideal_gas_law",
   name |-> <<"I","d","e","a","l"," ","G","a","s"," ","L","a","w">>,   \* Ideal Gas Law
   variables |-> <<<<"p">>, <<"V">>, <<"n">>, <<"R">>, <<"T">>>>,
   solve |-> <<<<"p">>, <<"V">>, <<"n">>, <<"R">>, <<"T">>>>],
  [key |-> "density",
   name |-> <<"D","e","n","s","i","t","y">>,   \* Density
   variables |-> <<<<"U+03C1">>, <<"m">>, <<"V">>>>,
   solve |-> <<<<"U+03C1">>, <<"m">>, <<"V">>>>],
  [key |-> "sphere_volume",
   name |-> <<"S","p","h","e","r","e"," ","v","o","l","u","m","e">>,   \* Sphere volume
   variables |-> <<<<"V">>, <<"r","_","p","a","r","t">>>>,
   solve |-> <<<<"V">>, <<"r","_","p","a","r","t">>>>],
  [key |-> "mass_moles_molar_mass",
   name |-> <<"M","a","s","s","U+2013","m","o","l","e","s","U+2013","m","o","l","a","r"," ","m","a","s","s">>,   \* Mass–moles–molar mass
   variables |-> <<<<"m">>, <<"n">>, <<"M","_","m","o","l","a","r">>>>,
   solve |-> <<<<"m">>, <<"n">>, <<"M","_","m","o","l","a","r">>>>],
  [key |-> "particle_count",
   name |-> <<"P","a","r","t","i","c","l","e"," ","c","o","u","n","t">>,   \* Particle count
   variables |-> <<<<"N">>, <<"n">>, <<"N","_","A">>>>,
   solve |-> <<<<"N">>, <<"n">>, <<"N","_","A">>>>],
  [key |-> "particle_count_from_radius",
   name |-> <<"A","t","o","m","s"," ","i","n"," ","s","p","h","e","r","i","c","a","l"," ","p","a","r","t","i","c","l","e">>,   \* Atoms in spherical particle
   variables |-> <<<<"N">>, <<"U+03C1">>, <<"r","_","p","a","r","t">>, <<"M","_","m","o","l","a","r">>, <<"N","_","A">>>>,
   solve |-> <<<<"N">>, <<"r","_","p","a","r","t">>, <<"U+03C1">>, <<"M","_","m","o","l","a","r">>, <<"N","_","A">>>>],
  [key |-> "molarity",
   name |-> <<"M","o","l","a","r","i","t","y">>,   \* Molarity
   variables |-> <<<<"c","_","m">>, <<"n">>, <<"V">>>>,
   solve |-> <<<<"c","_","m">>, <<"n">>, <<"V">>>>],
  [key |-> "boyle",
   name |-> <<"B","o","y","l","e","'","s"," ","L","a","w"," ","(","i","s","o","t","h","e","r","m","a","l",")">>,   \* Boyle's Law (isothermal)
   variables |-> <<<<"p","1">>, <<"v","1">>, <<"p","2">>, <<"v","2">>>>,
   solve |-> <<<<"p","1">>, <<"v","1">>, <<"p","2">>, <<"v","2">>>>],
  [key |-> "dalton_partial",
   name |-> <<"D","a","l","t","o","n","'","s"," ","L","a","w"," ","(","p","a","r","t","i","a","l"," ","p","r","e","s","s","u","r","e",")">>,   \* Dalton's Law (partial pressure)
   variables |-> <<<<"p","_","i">>, <<"y","_","i">>, <<"p","_","t","o","t","a","l">>>>,
   solve |-> <<<<"p","_","i">>, <<"y","_","i">>, <<"p","_","t","o","t","a","l">>>>],
  [key |-> "mole_fraction",
   name |-> <<"M","o","l","e"," ","F","r","a","c","t","i","o","n">>,   \* Mole Fraction
   variables |-> <<<<"y","_","i">>, <<"n","_","i">>, <<"n","_","t","o","t","a","l">>>>,
   solve |-> <<<<"y","_","i">>, <<"n","_","i">>, <<"n","_","t","o","t","a","l">>>>],
  [key |-> "dalton_sum2",
   name |-> <<"D","a","l","t","o","n","'","s"," ","L","a","w"," ","(","s","u","m"," ","o","f"," ","p","a","r","t","i","a","l","s",","," ","2"," ","c","o","m","p","o","n","e","n","t","s",")">>,   \* Dalton's Law (sum of partials, 2 components)
   variables |-> <<<<"p","_","t","o","t","a","l">>, <<"p","A">>, <<"p","B">>>>,
   solve |-> <<<<"p","_","t","o","t","a","l">>, <<"p","A">>, <<"p","B">>>>],
  [key |-> "dalton_sum3",
   name |-> <<"D","a","l","t","o","n","'","s"," ","L","a","w"," ","(","s","u","m"," ","o","f"," ","p","a","r","t","i","a","l","s",","," ","3"," ","c","o","m","p","o","n","e","n","t","s",")">>,   \* Dalton's Law (sum of partials, 3 components)
   variables |-> <<<<"p","_","t","o","t","a","l">>, <<"p","A">>, <<"p","B">>, <<"p","C">>>>,
   solve |-> <<<<"p","_","t","o","t","a","l">>, <<"p","A">>, <<"p","B">>, <<"p","C">>>>],
  [key |-> "gibbs_standard",
   name |-> <<"G","i","b","b","s"," ","r","e","l","a","t","i","o","n"," ","(","s","t","a","n","d","a","r","d",")">>,   \* Gibbs relation (standard)
   variables |-> <<<<"U+0394","G","U+00B0","r","x","n">>, <<"U+0394","H","U+00B0","r","x","n">>, <<"T">>, <<"U+0394","S","U+00B0","r","x","n">>>>,
   solve |-> <<<<"U+0394","G","U+00B0","r","x","n">>, <<"U+0394","H","U+00B0","r","x","n">>, <<"T">>, <<"U+0394","S","U+00B0","r","x","n">>>>],
  [key |-> "equilibrium_dg",
   name |-> <<"E","q","u","i","l","i","b","r","i","u","m"," ","U+2194"," ","G","i","b","b","s"," ","(","s","t","a","n","d","a","r","d",")">>,   \* Equilibrium ↔ Gibbs (standard)
   variables |-> <<<<"U+0394","G","U+00B0","r","x","n">>, <<"K">>, <<"R">>, <<"T">>>>,
   solve |-> <<<<"U+0394","G","U+00B0","r","x","n">>, <<"K">>>>],
  [key |-> "rxn_enthalpy_from_formation",
   name |-> <<"R","e","a","c","t","i","o","n"," ","e","n","t","h","a","l","p","y"," ","f","r","o","m"," ","f","o","r","m","a","t","i","o","n"," ","d","a","t","a">>,   \* Reaction enthalpy from formation data
   variables |-> <<<<"U+0394","H","U+00B0","r","x","n">>, <<"s","u","m","_","H","f","_","p","r","o","d">>, <<"s","u","m","_","H","f","_","r","e","a","c","t">>>>,
   solve |-> <<<<"U+0394","H","U+00B0","r","x","n">>, <<"s","u","m","_","H","f","_","p","r","o","d">>, <<"s","u","m","_","H","f","_","r","e","a","c","t">>>>],
  [key |-> "rxn_entropy_from_S",
   name |-> <<"R","e","a","c","t","i","o","n"," ","e","n","t","r","o","p","y"," ","f","r","o","m"," ","s","t","a","n","d","a","r","d"," ","m","o","l","a","r"," ","e","n","t","r","o","p","i","e","s">>,   \* Reaction entropy from standard molar entropies
   variables |-> <<<<"U+0394","S","U+00B0","r","x","n">>, <<"s","u","m","_","S","_","p","r","o","d">>, <<"s","u","m","_","S","_","r","e","a","c","t">>>>,
   solve |-> <<<<"U+0394","S","U+00B0","r","x","n">>, <<"s","u","m","_","S","_","p","r","o","d">>, <<"s","u","m","_","S","_","r","e","a","c","t">>>>],
  [key |-> "rxn_gibbs_from_formation",
   name |-> <<"R","e","a","c","t","i","o","n"," ","G","i","b","b","s"," ","f","r","o","m"," ","f","o","r","m","a","t","i","o","n"," ","d","a","t","a">>,   \* Reaction Gibbs from formation data
   variables |-> <<<<"U+0394","G","U+00B0","r","x","n">>, <<"s","u","m","_","G","f","_","p","r","o","d">>, <<"s","u","m","_","G","f","_","r","e","a","c","t">>>>,
   solve |-> <<<<"U+0394","G","U+00B0","r","x","n">>, <<"s","u","m","_","G","f","_","p","r","o","d">>, <<"s","u","m","_","G","f","_","r","e","a","c","t">>>>],
  [key |-> "heat_from_extent",
   name |-> <<"H","e","a","t"," ","f","r","o","m"," ","r","e","a","c","t","i","o","n"," ","e","x","t","e","n","t">>,   \* Heat from reaction extent
   variables |-> <<<<"q">>, <<"U+03BE">>, <<"U+0394","H","U+00B0","r","x","n">>>>,
   solve |-> <<<<"q">>, <<"U+03BE">>, <<"U+0394","H","U+00B0","r","x","n">>>>],
  [key |-> "extent_from_component",
   name |-> <<"E","x","t","e","n","t"," ","f","r","o","m"," ","c","o","m","p","o","n","e","n","t"," ","m","o","l","e","s">>,   \* Extent from component moles
   variables |-> <<<<"U+03BE">>, <<"n","_","i">>, <<"U+03BD","_","i">>>>,
   solve |-> <<<<"U+03BE">>, <<"n","_","i">>, <<"U+03BD","_","i">>>>],
  [key |-> "vap_from_formation",
   name |-> <<"E","n","t","h","a","l","p","y"," ","o","f"," ","v","a","p","o","r","i","z","a","t","i","o","n"," ","f","r","o","m"," ","f","o","r","m","a","t","i","o","n"," ","d","a","t","a">>,   \* Enthalpy of vaporization from formation data
   variables |-> <<<<"U+0394","H","_","v","a","p">>, <<"U+0394","H","U+00B0","f","_","g","a","s">>, <<"U+0394","H","U+00B0","f","_","l","i","q">>>>,
   solve |-> <<<<"U+0394","H","_","v","a","p">>, <<"U+0394","H","U+00B0","f","_","g","a","s">>, <<"U+0394","H","U+00B0","f","_","l","i","q">>>>],
  [key |-> "enthalpy_scaling",
   name |-> <<"S","c","a","l","e"," ","r","e","a","c","t","i","o","n"," ","e","n","t","h","a","l","p","y"," ","b","y"," ","f","a","c","t","o","r">>,   \* Scale reaction enthalpy by factor
   variables |-> <<<<"U+0394","H","U+00B0","r","x","n","_","s","c","a","l","e","d">>, <<"U+0394","H","U+00B0","r","x","n">>, <<"s","c","a","l","e","_","n">>>>,
   solve |-> <<<<"U+0394","H","U+00B0","r","x","n","_","s","c","a","l","e","d">>, <<"U+0394","H","U+00B0","r","x","n">>, <<"s","c","a","l","e","_","n">>>>],
  [key |-> "enthalpy_reverse",
   name |-> <<"R","e","v","e","r","s","e"," ","r","e","a","c","t","i","o","n"," ","e","n","t","h","a","l","p","y">>,   \* Reverse reaction enthalpy
   variables |-> <<<<"U+0394","H","U+00B0","r","x","n","_","r","e","v">>, <<"U+0394","H","U+00B0","r","x","n">>>>,
   solve |-> <<<<"U+0394","H","U+00B0","r","x","n","_","r","e","v">>, <<"U+0394","H","U+00B0","r","x","n">>>>],
  [key |-> "combustion_energy",
   name |-> <<"E","n","e","r","g","y"," ","r","e","l","e","a","s","e","d"," ","b","y"," ","c","o","m","b","u","s","t","i","o","n">>,   \* Energy released by combustion
   variables |-> <<<<"q">>, <<"n">>, <<"U+0394","G","U+00B0","r","x","n">>>>,
   solve |-> <<<<"q">>, <<"n">>, <<"U+0394","G","U+00B0","r","x","n">>>>],
  [key |-> "planck_hnu",
   name |-> <<"P","h","o","t","o","n"," ","e","n","e","r","g","y"," ","f","r","o","m"," ","f","r","e","q","u","e","n","c","y">>,   \* Photon energy from frequency
   variables |-> <<<<"E","_","p","h">>, <<"h","_","p","l","a","n","c","k">>, <<"U+03BD","_","f","r","e","q">>>>,
   solve |-> <<<<"E","_","p","h">>, <<"U+03BD","_","f","r","e","q">>, <<"h","_","p","l","a","n","c","k">>>>],
  [key |-> "wave_speed",
   name |-> <<"W","a","v","e"," ","s","p","e","e","d"," ","r","e","l","a","t","i","o","n">>,   \* Wave speed relation
   variables |-> <<<<"c","0">>, <<"U+03BB">>, <<"U+03BD">>>>,
   solve |-> <<<<"c","0">>, <<"U+03BB">>, <<"U+03BD">>>>],
  [key |-> "planck_hc_over_lambda",
   name |-> <<"P","h","o","t","o","n"," ","e","n","e","r","g","y"," ","f","r","o","m"," ","w","a","v","e","l","e","n","g","t","h">>,   \* Photon energy from wavelength
   variables |-> <<<<"E","_","p","h">>, <<"h","_","p","l","a","n","c","k">>, <<"c","0">>, <<"U+03BB">>>>,
   solve |-> <<<<"E","_","p","h">>, <<"U+03BB">>>>],
  [key |-> "rydberg_lambda",
   name |-> <<"H","y","d","r","o","g","e","n","-","l","i","k","e"," ","w","a","v","e","l","e","n","g","t","h"," ","(","R","y","d","b","e","r","g",")">>,   \* Hydrogen-like wavelength (Rydberg)
   variables |-> <<<<"U+03BB">>, <<"R","U+221E">>, <<"Z">>, <<"n","1">>, <<"n","2">>>>,
   solve |-> <<<<"U+03BB">>>>],
  [key |-> "bohr_transition",
   name |-> <<"H","y","d","r","o","g","e","n","-","l","i","k","e"," ","t","r","a","n","s","i","t","i","o","n"," ","e","n","e","r","g","y"," ","(","B","o","h","r",")">>,   \* Hydrogen-like transition energy (Bohr)
   variables |-> <<<<"U+0394","E">>, <<"Z">>, <<"n","1">>, <<"n","2">>, <<"E","_","H">>>>,
   solve |-> <<<<"U+0394","E">>>>],
  [key |-> "bragg",
   name |-> <<"B","r","a","g","g","U+2019","s"," ","l","a","w">>,   \* Bragg’s law
   variables |-> <<<<"n","_","b","r","a","g","g">>, <<"U+03BB">>, <<"d","_","s","p","a","c","i","n","g">>, <<"t","h","e","t","a">>>>,
   solve |-> <<<<"n","_","b","r","a","g","g">>, <<"U+03BB">>, <<"d","_","s","p","a","c","i","n","g">>, <<"t","h","e","t","a">>>>],
  [key |-> "bragg_2theta",
   name |-> <<"B","r","a","g","g"," ","w","i","t","h"," ","2","U+03B8">>,   \* Bragg with 2θ
   variables |-> <<<<"n","_","b","r","a","g","g">>, <<"U+03BB">>, <<"d","_","s","p","a","c","i","n","g">>, <<"t","w","o","_","t","h","e","t","a">>>>,
   solve |-> <<<<"d","_","s","p","a","c","i","n","g">>, <<"U+03BB">>, <<"n","_","b","r","a","g","g">>, <<"t","w","o","_","t","h","e","t","a">>>>],
  [key |-> "cubic_d_hkl",
   name |-> <<"C","u","b","i","c",":"," ","d"," ","f","r","o","m"," ","a"," ","a","n","d"," ","(","h","k","l",")">>,   \* Cubic: d from a and (hkl)
   variables |-> <<<<"d","_","s","p","a","c","i","n","g">>, <<"a","_","c","u","b","i","c">>, <<"h","_","m","i">>, <<"k","_","m","i">>, <<"l","_","m","i">>>>,
   solve |-> <<<<"d","_","s","p","a","c","i","n","g">>, <<"a","_","c","u","b","i","c">>>>],
  [key |-> "s_from_bragg",
   name |-> <<"R","e","c","i","p","r","o","c","a","l"," ","s","p","a","c","i","n","g"," ","s"," ","f","r","o","m"," ","B","r","a","g","g">>,   \* Reciprocal spacing s from Bragg
   variables |-> <<<<"s","_","r","e","c","i","p">>, <<"U+03BB">>, <<"t","h","e","t","a">>>>,
   solve |-> <<<<"s","_","r","e","c","i","p">>, <<"t","h","e","t","a">>, <<"U+03BB">>>>],
  [key |-> "q_from_bragg",
   name |-> <<"S","c","a","t","t","e","r","i","n","g"," ","v","e","c","t","o","r"," ","q">>,   \* Scattering vector q
   variables |-> <<<<"q","_","s","c","a","t">>, <<"U+03BB">>, <<"t","h","e","t","a">>>>,
   solve |-> <<<<"q","_","s","c","a","t">>, <<"t","h","e","t","a">>, <<"U+03BB">>>>],
  [key |-> "q_s_d_links",
   name |-> <<"L","i","n","k","s",":"," ","q",","," ","s",","," ","d">>,   \* Links: q, s, d
   variables |-> <<<<"q","_","s","c","a","t">>, <<"s","_","r","e","c","i","p">>, <<"d","_","s","p","a","c","i","n","g">>>>,
   solve |-> <<<<"s","_","r","e","c","i","p">>, <<"q","_","s","c","a","t">>, <<"d","_","s","p","a","c","i","n","g">>>>],
  [key |-> "raoult_2comp",
   name |-> <<"R","a","o","u","l","t","U+2019","s"," ","l","a","w"," ","(","2"," ","c","o","m","p","o","n","e","n","t","s",")">>,   \* Raoult’s law (2 components)
   variables |-> <<<<"p","_","i">>, <<"x","_","i","_","l","i","q">>, <<"P","_","s","a","t","_","i">>, <<"P","_","v","a","p","_","t","o","t","a","l">>>>,
   solve |-> <<<<"p","_","i">>, <<"x","_","i","_","l","i","q">>, <<"P","_","s","a","t","_","i">>, <<"P","_","v","a","p","_","t","o","t","a","l">>>>],
  [key |-> "henry_px",
   name |-> <<"H","e","n","r","y",":"," ","p"," ","="," ","k","H","U+00B7","x">>,   \* Henry: p = kH·x
   variables |-> <<<<"p">>, <<"k","H","_","P","x">>, <<"x","_","i","_","l","i","q">>>>,
   solve |-> <<<<"p">>, <<"k","H","_","P","x">>, <<"x","_","i","_","l","i","q">>>>],
  [key |-> "henry_cp",
   name |-> <<"H","e","n","r","y",":"," ","c"," ","="," ","k","H","U+00B7","p">>,   \* Henry: c = kH·p
   variables |-> <<<<"c","_","m">>, <<"k","H","_","c","P">>, <<"p">>>>,
   solve |-> <<<<"c","_","m">>, <<"k","H","_","c","P">>, <<"p">>>>],
  [key |-> "osmotic_pressure",
   name |-> <<"O","s","m","o","t","i","c"," ","p","r","e","s","s","u","r","e"," ","(","v","a","n"," ","U+2019","t"," ","H","o","f","f",")">>,   \* Osmotic pressure (van ’t Hoff)
   variables |-> <<<<"U+03C0","_","o","s","m">>, <<"i","_","v","H">>, <<"c","_","m">>, <<"R">>, <<"T">>>>,
   solve |-> <<<<"U+03C0","_","o","s","m">>, <<"i","_","v","H">>, <<"c","_","m">>>>],
  [key |-> "boiling_elevation",
   name |-> <<"B","o","i","l","i","n","g","-","p","o","i","n","t"," ","e","l","e","v","a","t","i","o","n">>,   \* Boiling-point elevation
   variables |-> <<<<"U+0394","T","b">>, <<"i","_","v","H">>, <<"K","b">>, <<"m","_","m","o","l","a","l">>>>,
   solve |-> <<<<"U+0394","T","b">>, <<"i","_","v","H">>, <<"K","b">>, <<"m","_","m","o","l","a","l">>>>],
  [key |-> "freezing_depression",
   name |-> <<"F","r","e","e","z","i","n","g","-","p","o","i","n","t"," ","d","e","p","r","e","s","s","i","o","n">>,   \* Freezing-point depression
   variables |-> <<<<"U+0394","T","f">>, <<"i","_","v","H">>, <<"K","f">>, <<"m","_","m","o","l","a","l">>>>,
   solve |-> <<<<"U+0394","T","f">>, <<"i","_","v","H">>, <<"K","f">>, <<"m","_","m","o","l","a","l">>>>],
  [key |-> "total_ion_conc",
   name |-> <<"T","o","t","a","l"," ","i","o","n"," ","c","o","n","c","e","n","t","r","a","t","i","o","n"," ","(","v","i","a"," ","i",")">>,   \* Total ion concentration (via i)
   variables |-> <<<<"c","_","t","o","t","a","l","_","i","o","n","s">>, <<"i","_","v","H">>, <<"c","_","m">>>>,
   solve |-> <<<<"c","_","t","o","t","a","l","_","i","o","n","s">>, <<"i","_","v","H">>, <<"c","_","m">>>>]
>>

\* ------------------------------------------------------------------------
\* aliases.py: alias resolution
\* ------------------------------------------------------------------------
\* The keys the loop that fills _ALIAS_TO_CANON assigns for variable v: its
\* aliases, its name and its key, all lower-cased.
AliasesOf(v) ==
  {lower(VARIABLES_TABLE[v].aliases[a]) : a \in DOMAIN VARIABLES_TABLE[v].aliases}
  \cup {lower(VARIABLES_TABLE[v].name), lower(VARIABLES_TABLE[v].key)}

AliasKeys == UNION {AliasesOf(v) : v \in DOMAIN VARIABLES_TABLE}

\* _ALIAS_TO_CANON[key]: a dict keeps the last value assigned to a key, which
\* is the key of the last variable, in the order of VARIABLES, that assigns it.
_ALIAS_TO_CANON(key) ==
  VARIABLES_TABLE[Max({v \in DOMAIN VARIABLES_TABLE : key \in AliasesOf(v)})].key

_startswith_rank(query, target) == IF startswith(target, query) THEN 0 ELSE -1

\* ------------------------------------------------------------------------
\* A value that is used more than once is bound by a one-element set, as in
\* {F(x) : x \in {e}}, so that e is computed once.
\* ------------------------------------------------------------------------
\* difflib.SequenceMatcher.find_longest_match over all of a and b, without
\* junk: the longest common block, the earliest in a and then in b.
CommonPrefixLen(a, i, b, j) ==
  LET room == IF Len(a) - i < Len(b) - j THEN Len(a) - i + 1 ELSE Len(b) - j + 1
      stop == {k \in 1..room : a[i + k - 1] # b[j + k - 1]}
  IN  IF stop = {} THEN room ELSE Min(stop) - 1

\* The places where a and b have a common block of the length best.
BlocksOfSize(a, b, best) ==
  {r \in (DOMAIN a) \X (DOMAIN b) : CommonPrefixLen(a, r[1], b, r[2]) = best}

EarliestBlock(hits, best) ==
  LET p == CHOOSE q \in hits : \A r \in hits : q[1] < r[1] \/ (q[1] = r[1] /\ q[2] <= r[2])
  IN  [i |-> p[1], j |-> p[2], size |-> best]

find_longest_match(a, b) ==
  CHOOSE m \in UNION {{EarliestBlock(hits, best) : hits \in {BlocksOfSize(a, b, best)}} :
                        best \in {Max({CommonPrefixLen(a, p[1], b, p[2]) :
                                         p \in (DOMAIN a) \X (DOMAIN b)})}} : TRUE

\* The number of matched characters of get_matching_blocks: the longest block,
\* then the same to its left and to its right.
RECURSIVE MatchedChars(_, _)
RECURSIVE MatchedAround(_, _, _)
MatchedAround(a, b, m) ==
  IF m.size = 0 THEN 0
  ELSE m.size
       + MatchedChars(SubSeq(a, 1, m.i - 1), SubSeq(b, 1, m.j - 1))
       + MatchedChars(SubSeq(a, m.i + m.size, Len(a)), SubSeq(b, m.j + m.size, Len(b)))

MatchedChars(a, b) ==
  IF a = <<>> \/ b = <<>> THEN 0
  ELSE CHOOSE n \in {MatchedAround(a, b, m) : m \in {find_longest_match(a, b)}} : TRUE

\* SequenceMatcher.real_quick_ratio() >= cutoff: 2*min(la, lb)/(la + lb) >= 3/4.
RealQuickRatioOk(a, b) ==
  LET small == IF Len(a) < Len(b) THEN Len(a) ELSE Len(b)
  IN  CutoffDen * 2 * small >= CutoffNum * (Len(a) + Len(b))

\* (ratio(x, word), x) > (ratio(y, word), y) as Python compares tuples, the
\* ratio being 2*M/T for M matched characters of T.
RatioGreater(x, y, word) ==
  LET left == MatchedChars(x, word) * (Len(y) + Len(word))
      right == MatchedChars(y, word) * (Len(x) + Len(word))
  IN  left > right \/ (left = right /\ StrLess(y, x))

BestMatch(word, close) ==
  IF close = {} THEN <<>>
  ELSE <<CHOOSE x \in close : \A y \in close \ {x} : RatioGreater(x, y, word)>>

\* difflib.get_close_matches(word, possibilities, n=1, cutoff=0.75): of the
\* possibilities x with ratio(x, word) = 2*M/T >= cutoff, the one with the
\* largest (ratio, x).  The possibilities are distinct, so their order in the
\* list does not matter: they are a set here.  The result is <<>> or <<best>>.
get_close_matches(word, possibilities) ==
  CHOOSE best \in
    {BestMatch(word, close) :
       close \in {{x \in possibilities :
                     /\ RealQuickRatioOk(x, word)
                     /\ CutoffDen * 2 * MatchedChars(x, word) >= CutoffNum * (Len(x) + Len(word))}}} :
    TRUE

\* The variables whose name, or else one of whose aliases, starts with key.
StartsCanons(key) ==
  {VARIABLES_TABLE[v].key : v \in {w \in DOMAIN VARIABLES_TABLE :
      \/ _startswith_rank(key, lower(VARIABLES_TABLE[w].name)) # -1
      \/ \E a \in DOMAIN VARIABLES_TABLE[w].aliases :
           _startswith_rank(key, lower(VARIABLES_TABLE[w].aliases[a])) # -1}}

\* normalize_var past the alias test: starts.sort(key=(rank, canon)) with
\* every rank 0, then the closest alias, then the text as typed.
ResolveByPrefix(s, key, starts) ==
  IF starts # {} THEN CHOOSE c \in starts : \A o \in starts \ {c} : StrLess(c, o)
  ELSE CHOOSE r \in {IF best # <<>> THEN _ALIAS_TO_CANON(best[1]) ELSE s :
                       best \in {get_close_matches(key, AliasKeys)}} : TRUE

ResolveByAlias(s, key) ==
  IF s = <<>> THEN s
  ELSE IF key \in AliasKeys THEN _ALIAS_TO_CANON(key)
  ELSE CHOOSE r \in {ResolveByPrefix(s, key, starts) : starts \in {StartsCanons(key)}} : TRUE

normalize_var(name) ==
  CHOOSE r \in UNION {{ResolveByAlias(s, key) : key \in {lower(s)}} : s \in {strip(name)}} : TRUE
\* ------------------------------------------------------------------------
\* constants.py, equations.py and chem_helper.py: the equation matcher.
\* A dict of values is a function from its keys to numbers.
\* ------------------------------------------------------------------------
CONSTANTS_KEYS == {CONSTANTS_TABLE[i].key : i \in DOMAIN CONSTANTS_TABLE}

CONSTANTS_VALUE(k) ==
  CONSTANTS_TABLE[CHOOSE i \in DOMAIN CONSTANTS_TABLE : CONSTANTS_TABLE[i].key = k].value

\* v[k] in a solver: KeyError when the key is absent.
Get(v, k) == IF k \in DOMAIN v THEN v[k] ELSE PyError("KeyError")

\* eq["solve"][target](v): the lambdas of equations.py that are sums, products
\* and quotients, each with its line; the others (powers, math.*) are kept
\* as the application of the solver to its input.
Solver(key, target, v) ==
  CASE
    key = "specific_heat" /\ target = <<"Q">> ->   \* 25: v["m"] * v["c"] * v["ΔT"]
      Mul(Mul(Get(v, <<"m">>), Get(v, <<"c">>)), Get(v, <<"U+0394","T">>))
    []
    key = "specific_heat" /\ target = <<"m">> ->   \* 26: v["Q"] / (v["c"] * v["ΔT"])
      Div(Get(v, <<"Q">>), Mul(Get(v, <<"c">>), Get(v, <<"U+0394","T">>)))
    []
    key = "specific_heat" /\ target = <<"c">> ->   \* 27: v["Q"] / (v["m"] * v["ΔT"])
      Div(Get(v, <<"Q">>), Mul(Get(v, <<"m">>), Get(v, <<"U+0394","T">>)))
    []
    key = "specific_heat" /\ target = <<"U+0394","T">> ->   \* 28: v["Q"] / (v["m"] * v["c"])
      Div(Get(v, <<"Q">>), Mul(Get(v, <<"m">>), Get(v, <<"c">>)))
    []
    key = "ideal_gas_law" /\ target = <<"p">> ->   \* 38: v["n"] * v["R"] * v["T"] / v["V"]
      Div(Mul(Mul(Get(v, <<"n">>), Get(v, <<"R">>)), Get(v, <<"T">>)), Get(v, <<"V">>))
    []
    key = "ideal_gas_law" /\ target = <<"V">> ->   \* 39: v["n"] * v["R"] * v["T"] / v["p"]
      Div(Mul(Mul(Get(v, <<"n">>), Get(v, <<"R">>)), Get(v, <<"T">>)), Get(v, <<"p">>))
    []
    key = "ideal_gas_law" /\ target = <<"n">> ->   \* 40: v["p"] * v["V"] / (v["R"] * v["T"])
      Div(Mul(Get(v, <<"p">>), Get(v, <<"V">>)), Mul(Get(v, <<"R">>), Get(v, <<"T">>)))
    []
    key = "ideal_gas_law" /\ target = <<"R">> ->   \* 41: v["p"] * v["V"] / (v["n"] * v["T"])
      Div(Mul(Get(v, <<"p">>), Get(v, <<"V">>)), Mul(Get(v, <<"n">>), Get(v, <<"T">>)))
    []
    key = "ideal_gas_law" /\ target = <<"T">> ->   \* 42: v["p"] * v["V"] / (v["n"] * v["R"])
      Div(Mul(Get(v, <<"p">>), Get(v, <<"V">>)), Mul(Get(v, <<"n">>), Get(v, <<"R">>)))
    []
    key = "density" /\ target = <<"U+03C1">> ->   \* 52: v["m"] / v["V"]
      Div(Get(v, <<"m">>), Get(v, <<"V">>))
    []
    key = "density" /\ target = <<"m">> ->   \* 53: v["ρ"] * v["V"]
      Mul(Get(v, <<"U+03C1">>), Get(v, <<"V">>))
    []
    key = "density" /\ target = <<"V">> ->   \* 54: v["m"] / v["ρ"]
      Div(Get(v, <<"m">>), Get(v, <<"U+03C1">>))
    []
    key = "mass_moles_molar_mass" /\ target = <<"m">> ->   \* 77: v["n"] * v["M_molar"]
      Mul(Get(v, <<"n">>), Get(v, <<"M","_","m","o","l","a","r">>))
    []
    key = "mass_moles_molar_mass" /\ target = <<"n">> ->   \* 78: v["m"] / v["M_molar"]
      Div(Get(v, <<"m">>), Get(v, <<"M","_","m","o","l","a","r">>))
    []
    key = "mass_moles_molar_mass" /\ target = <<"M","_","m","o","l","a","r">> ->   \* 79: v["m"] / v["n"]
      Div(Get(v, <<"m">>), Get(v, <<"n">>))
    []
    key = "particle_count" /\ target = <<"N">> ->   \* 90: v["n"] * v["N_A"]
      Mul(Get(v, <<"n">>), Get(v, <<"N","_","A">>))
    []
    key = "particle_count" /\ target = <<"n">> ->   \* 91: v["N"] / v["N_A"]
      Div(Get(v, <<"N">>), Get(v, <<"N","_","A">>))
    []
    key = "particle_count" /\ target = <<"N","_","A">> ->   \* 92: v["N"] / v["n"]
      Div(Get(v, <<"N">>), Get(v, <<"n">>))
    []
    key = "molarity" /\ target = <<"c","_","m">> ->   \* 129: v["n"] / v["V"]
      Div(Get(v, <<"n">>), Get(v, <<"V">>))
    []
    key = "molarity" /\ target = <<"n">> ->   \* 130: v["c_m"] * v["V"]
      Mul(Get(v, <<"c","_","m">>), Get(v, <<"V">>))
    []
    key = "molarity" /\ target = <<"V">> ->   \* 131: v["n"] / v["c_m"]
      Div(Get(v, <<"n">>), Get(v, <<"c","_","m">>))
    []
    key = "boyle" /\ target = <<"p","1">> ->   \* 141: v["p2"] * v["v2"] / v["v1"]
      Div(Mul(Get(v, <<"p","2">>), Get(v, <<"v","2">>)), Get(v, <<"v","1">>))
    []
    key = "boyle" /\ target = <<"v","1">> ->   \* 142: v["p2"] * v["v2"] / v["p1"]
      Div(Mul(Get(v, <<"p","2">>), Get(v, <<"v","2">>)), Get(v, <<"p","1">>))
    []
    key = "boyle" /\ target = <<"p","2">> ->   \* 143: v["p1"] * v["v1"] / v["v2"]
      Div(Mul(Get(v, <<"p","1">>), Get(v, <<"v","1">>)), Get(v, <<"v","2">>))
    []
    key = "boyle" /\ target = <<"v","2">> ->   \* 144: v["p1"] * v["v1"] / v["p2"]
      Div(Mul(Get(v, <<"p","1">>), Get(v, <<"v","1">>)), Get(v, <<"p","2">>))
    []
    key = "dalton_partial" /\ target = <<"p","_","i">> ->   \* 154: v["y_i"] * v["p_total"]
      Mul(Get(v, <<"y","_","i">>), Get(v, <<"p","_","t","o","t","a","l">>))
    []
    key = "dalton_partial" /\ target = <<"y","_","i">> ->   \* 155: v["p_i"] / v["p_total"]
      Div(Get(v, <<"p","_","i">>), Get(v, <<"p","_","t","o","t","a","l">>))
    []
    key = "dalton_partial" /\ target = <<"p","_","t","o","t","a","l">> ->   \* 156: v["p_i"] / v["y_i"]
      Div(Get(v, <<"p","_","i">>), Get(v, <<"y","_","i">>))
    []
    key = "mole_fraction" /\ target = <<"y","_","i">> ->   \* 166: v["n_i"] / v["n_total"]
      Div(Get(v, <<"n","_","i">>), Get(v, <<"n","_","t","o","t","a","l">>))
    []
    key = "mole_fraction" /\ target = <<"n","_","i">> ->   \* 167: v["y_i"] * v["n_total"]
      Mul(Get(v, <<"y","_","i">>), Get(v, <<"n","_","t","o","t","a","l">>))
    []
    key = "mole_fraction" /\ target = <<"n","_","t","o","t","a","l">> ->   \* 168: v["n_i"] / v["y_i"]
      Div(Get(v, <<"n","_","i">>), Get(v, <<"y","_","i">>))
    []
    key = "dalton_sum2" /\ target = <<"p","_","t","o","t","a","l">> ->   \* 178: v["pA"] + v["pB"]
      Add(Get(v, <<"p","A">>), Get(v, <<"p","B">>))
    []
    key = "dalton_sum2" /\ target = <<"p","A">> ->   \* 179: v["p_total"] - (v["pB"])
      Sub(Get(v, <<"p","_","t","o","t","a","l">>), Get(v, <<"p","B">>))
    []
    key = "dalton_sum2" /\ target = <<"p","B">> ->   \* 180: v["p_total"] - (v["pA"])
      Sub(Get(v, <<"p","_","t","o","t","a","l">>), Get(v, <<"p","A">>))
    []
    key = "dalton_sum3" /\ target = <<"p","_","t","o","t","a","l">> ->   \* 190: v["pA"] + v["pB"] + v["pC"]
      Add(Add(Get(v, <<"p","A">>), Get(v, <<"p","B">>)), Get(v, <<"p","C">>))
    []
    key = "dalton_sum3" /\ target = <<"p","A">> ->   \* 191: v["p_total"] - (v["pB"] + v["pC"])
      Sub(Get(v, <<"p","_","t","o","t","a","l">>), Add(Get(v, <<"p","B">>), Get(v, <<"p","C">>)))
    []
    key = "dalton_sum3" /\ target = <<"p","B">> ->   \* 192: v["p_total"] - (v["pA"] + v["pC"])
      Sub(Get(v, <<"p","_","t","o","t","a","l">>), Add(Get(v, <<"p","A">>), Get(v, <<"p","C">>)))
    []
    key = "dalton_sum3" /\ target = <<"p","C">> ->   \* 193: v["p_total"] - (v["pA"] + v["pB"])
      Sub(Get(v, <<"p","_","t","o","t","a","l">>), Add(Get(v, <<"p","A">>), Get(v, <<"p","B">>)))
    []
    key = "gibbs_standard" /\ target = <<"U+0394","G","U+00B0","r","x","n">> ->   \* 204: v["ΔH°rxn"] - v["T"] * v["ΔS°rxn"]
      Sub(Get(v, <<"U+0394","H","U+00B0","r","x","n">>), Mul(Get(v, <<"T">>), Get(v, <<"U+0394","S","U+00B0","r","x","n">>)))
    []
    key = "gibbs_standard" /\ target = <<"U+0394","H","U+00B0","r","x","n">> ->   \* 205: v["ΔG°rxn"] + v["T"] * v["ΔS°rxn"]
      Add(Get(v, <<"U+0394","G","U+00B0","r","x","n">>), Mul(Get(v, <<"T">>), Get(v, <<"U+0394","S","U+00B0","r","x","n">>)))
    []
    key = "gibbs_standard" /\ target = <<"T">> ->   \* 206: (v["ΔH°rxn"] - v["ΔG°rxn"]) / v["ΔS°rxn"]
      Div(Sub(Get(v, <<"U+0394","H","U+00B0","r","x","n">>), Get(v, <<"U+0394","G","U+00B0","r","x","n">>)), Get(v, <<"U+0394","S","U+00B0","r","x","n">>))
    []
    key = "gibbs_standard" /\ target = <<"U+0394","S","U+00B0","r","x","n">> ->   \* 207: (v["ΔH°rxn"] - v["ΔG°rxn"]) / v["T"]
      Div(Sub(Get(v, <<"U+0394","H","U+00B0","r","x","n">>), Get(v, <<"U+0394","G","U+00B0","r","x","n">>)), Get(v, <<"T">>))
    []
    key = "rxn_enthalpy_from_formation" /\ target = <<"U+0394","H","U+00B0","r","x","n">> ->   \* 230: v["sum_Hf_prod"] - v["sum_Hf_react"]
      Sub(Get(v, <<"s","u","m","_","H","f","_","p","r","o","d">>), Get(v, <<"s","u","m","_","H","f","_","r","e","a","c","t">>))
    []
    key = "rxn_enthalpy_from_formation" /\ target = <<"s","u","m","_","H","f","_","p","r","o","d">> ->   \* 231: v["ΔH°rxn"] + v["sum_Hf_react"]
      Add(Get(v, <<"U+0394","H","U+00B0","r","x","n">>), Get(v, <<"s","u","m","_","H","f","_","r","e","a","c","t">>))
    []
    key = "rxn_enthalpy_from_formation" /\ target = <<"s","u","m","_","H","f","_","r","e","a","c","t">> ->   \* 232: v["sum_Hf_prod"] - v["ΔH°rxn"]
      Sub(Get(v, <<"s","u","m","_","H","f","_","p","r","o","d">>), Get(v, <<"U+0394","H","U+00B0","r","x","n">>))
    []
    key = "rxn_entropy_from_S" /\ target = <<"U+0394","S","U+00B0","r","x","n">> ->   \* 243: v["sum_S_prod"] - v["sum_S_react"]
      Sub(Get(v, <<"s","u","m","_","S","_","p","r","o","d">>), Get(v, <<"s","u","m","_","S","_","r","e","a","c","t">>))
    []
    key = "rxn_entropy_from_S" /\ target = <<"s","u","m","_","S","_","p","r","o","d">> ->   \* 244: v["ΔS°rxn"] + v["sum_S_react"]
      Add(Get(v, <<"U+0394","S","U+00B0","r","x","n">>), Get(v, <<"s","u","m","_","S","_","r","e","a","c","t">>))
    []
    key = "rxn_entropy_from_S" /\ target = <<"s","u","m","_","S","_","r","e","a","c","t">> ->   \* 245: v["sum_S_prod"] - v["ΔS°rxn"]
      Sub(Get(v, <<"s","u","m","_","S","_","p","r","o","d">>), Get(v, <<"U+0394","S","U+00B0","r","x","n">>))
    []
    key = "rxn_gibbs_from_formation" /\ target = <<"U+0394","G","U+00B0","r","x","n">> ->   \* 256: v["sum_Gf_prod"] - v["sum_Gf_react"]
      Sub(Get(v, <<"s","u","m","_","G","f","_","p","r","o","d">>), Get(v, <<"s","u","m","_","G","f","_","r","e","a","c","t">>))
    []
    key = "rxn_gibbs_from_formation" /\ target = <<"s","u","m","_","G","f","_","p","r","o","d">> ->   \* 257: v["ΔG°rxn"] + v["sum_Gf_react"]
      Add(Get(v, <<"U+0394","G","U+00B0","r","x","n">>), Get(v, <<"s","u","m","_","G","f","_","r","e","a","c","t">>))
    []
    key = "rxn_gibbs_from_formation" /\ target = <<"s","u","m","_","G","f","_","r","e","a","c","t">> ->   \* 258: v["sum_Gf_prod"] - v["ΔG°rxn"]
      Sub(Get(v, <<"s","u","m","_","G","f","_","p","r","o","d">>), Get(v, <<"U+0394","G","U+00B0","r","x","n">>))
    []
    key = "heat_from_extent" /\ target = <<"q">> ->   \* 269: v["ξ"] * v["ΔH°rxn"]
      Mul(Get(v, <<"U+03BE">>), Get(v, <<"U+0394","H","U+00B0","r","x","n">>))
    []
    key = "heat_from_extent" /\ target = <<"U+03BE">> ->   \* 270: v["q"] / v["ΔH°rxn"]
      Div(Get(v, <<"q">>), Get(v, <<"U+0394","H","U+00B0","r","x","n">>))
    []
    key = "heat_from_extent" /\ target = <<"U+0394","H","U+00B0","r","x","n">> ->   \* 271: v["q"] / v["ξ"]
      Div(Get(v, <<"q">>), Get(v, <<"U+03BE">>))
    []
    key = "extent_from_component" /\ target = <<"U+03BE">> ->   \* 282: v["n_i"] / v["ν_i"]
      Div(Get(v, <<"n","_","i">>), Get(v, <<"U+03BD","_","i">>))
    []
    key = "extent_from_component" /\ target = <<"n","_","i">> ->   \* 283: v["ξ"] * v["ν_i"]
      Mul(Get(v, <<"U+03BE">>), Get(v, <<"U+03BD","_","i">>))
    []
    key = "extent_from_component" /\ target = <<"U+03BD","_","i">> ->   \* 284: v["n_i"] / v["ξ"]
      Div(Get(v, <<"n","_","i">>), Get(v, <<"U+03BE">>))
    []
    key = "vap_from_formation" /\ target = <<"U+0394","H","_","v","a","p">> ->   \* 295: v["ΔH°f_gas"] - v["ΔH°f_liq"]
      Sub(Get(v, <<"U+0394","H","U+00B0","f","_","g","a","s">>), Get(v, <<"U+0394","H","U+00B0","f","_","l","i","q">>))
    []
    key = "vap_from_formation" /\ target = <<"U+0394","H","U+00B0","f","_","g","a","s">> ->   \* 296: v["ΔH_vap"] + v["ΔH°f_liq"]
      Add(Get(v, <<"U+0394","H","_","v","a","p">>), Get(v, <<"U+0394","H","U+00B0","f","_","l","i","q">>))
    []
    key = "vap_from_formation" /\ target = <<"U+0394","H","U+00B0","f","_","l","i","q">> ->   \* 297: v["ΔH°f_gas"] - v["ΔH_vap"]
      Sub(Get(v, <<"U+0394","H","U+00B0","f","_","g","a","s">>), Get(v, <<"U+0394","H","_","v","a","p">>))
    []
    key = "enthalpy_scaling" /\ target = <<"U+0394","H","U+00B0","r","x","n","_","s","c","a","l","e","d">> ->   \* 308: v["scale_n"] * v["ΔH°rxn"]
      Mul(Get(v, <<"s","c","a","l","e","_","n">>), Get(v, <<"U+0394","H","U+00B0","r","x","n">>))
    []
    key = "enthalpy_scaling" /\ target = <<"U+0394","H","U+00B0","r","x","n">> ->   \* 309: v["ΔH°rxn_scaled"] / v["scale_n"]
      Div(Get(v, <<"U+0394","H","U+00B0","r","x","n","_","s","c","a","l","e","d">>), Get(v, <<"s","c","a","l","e","_","n">>))
    []
    key = "enthalpy_scaling" /\ target = <<"s","c","a","l","e","_","n">> ->   \* 310: v["ΔH°rxn_scaled"] / v["ΔH°rxn"]
      Div(Get(v, <<"U+0394","H","U+00B0","r","x","n","_","s","c","a","l","e","d">>), Get(v, <<"U+0394","H","U+00B0","r","x","n">>))
    []
    key = "enthalpy_reverse" /\ target = <<"U+0394","H","U+00B0","r","x","n","_","r","e","v">> ->   \* 320: -v["ΔH°rxn"]
      Neg(Get(v, <<"U+0394","H","U+00B0","r","x","n">>))
    []
    key = "enthalpy_reverse" /\ target = <<"U+0394","H","U+00B0","r","x","n">> ->   \* 321: -v["ΔH°rxn_rev"]
      Neg(Get(v, <<"U+0394","H","U+00B0","r","x","n","_","r","e","v">>))
    []
    key = "combustion_energy" /\ target = <<"q">> ->   \* 331: v["n"] * (-v["ΔG°rxn"])
      Mul(Get(v, <<"n">>), Neg(Get(v, <<"U+0394","G","U+00B0","r","x","n">>)))
    []
    key = "combustion_energy" /\ target = <<"n">> ->   \* 332: v["q"] / (-v["ΔG°rxn"])
      Div(Get(v, <<"q">>), Neg(Get(v, <<"U+0394","G","U+00B0","r","x","n">>)))
    []
    key = "combustion_energy" /\ target = <<"U+0394","G","U+00B0","r","x","n">> ->   \* 333: -v["q"] / v["n"]
      Div(Neg(Get(v, <<"q">>)), Get(v, <<"n">>))
    []
    key = "planck_hnu" /\ target = <<"E","_","p","h">> ->   \* 344: v["h_planck"] * v["ν_freq"]
      Mul(Get(v, <<"h","_","p","l","a","n","c","k">>), Get(v, <<"U+03BD","_","f","r","e","q">>))
    []
    key = "planck_hnu" /\ target = <<"U+03BD","_","f","r","e","q">> ->   \* 345: v["E_ph"] / v["h_planck"]
      Div(Get(v, <<"E","_","p","h">>), Get(v, <<"h","_","p","l","a","n","c","k">>))
    []
    key = "planck_hnu" /\ target = <<"h","_","p","l","a","n","c","k">> ->   \* 346: v["E_ph"] / v["ν_freq"]
      Div(Get(v, <<"E","_","p","h">>), Get(v, <<"U+03BD","_","f","r","e","q">>))
    []
    key = "wave_speed" /\ target = <<"c","0">> ->   \* 356: v["λ"] * v["ν"]
      Mul(Get(v, <<"U+03BB">>), Get(v, <<"U+03BD">>))
    []
    key = "wave_speed" /\ target = <<"U+03BB">> ->   \* 357: v["c0"] / v["ν"]
      Div(Get(v, <<"c","0">>), Get(v, <<"U+03BD">>))
    []
    key = "wave_speed" /\ target = <<"U+03BD">> ->   \* 358: v["c0"] / v["λ"]
      Div(Get(v, <<"c","0">>), Get(v, <<"U+03BB">>))
    []
    key = "planck_hc_over_lambda" /\ target = <<"E","_","p","h">> ->   \* 367: v["h_planck"] * v["c0"] / v["λ"]
      Div(Mul(Get(v, <<"h","_","p","l","a","n","c","k">>), Get(v, <<"c","0">>)), Get(v, <<"U+03BB">>))
    []
    key = "planck_hc_over_lambda" /\ target = <<"U+03BB">> ->   \* 368: v["h_planck"] * v["c0"] / v["E_ph"]
      Div(Mul(Get(v, <<"h","_","p","l","a","n","c","k">>), Get(v, <<"c","0">>)), Get(v, <<"E","_","p","h">>))
    []
    key = "raoult_2comp" /\ target = <<"p","_","i">> ->   \* 491: v["x_i_liq"] * v["P_sat_i"]
      Mul(Get(v, <<"x","_","i","_","l","i","q">>), Get(v, <<"P","_","s","a","t","_","i">>))
    []
    key = "raoult_2comp" /\ target = <<"x","_","i","_","l","i","q">> ->   \* 492: v["p_i"] / v["P_sat_i"]
      Div(Get(v, <<"p","_","i">>), Get(v, <<"P","_","s","a","t","_","i">>))
    []
    key = "raoult_2comp" /\ target = <<"P","_","s","a","t","_","i">> ->   \* 493: v["p_i"] / v["x_i_liq"]
      Div(Get(v, <<"p","_","i">>), Get(v, <<"x","_","i","_","l","i","q">>))
    []
    key = "henry_px" /\ target = <<"p">> ->   \* 508: v["kH_Px"] * v["x_i_liq"]
      Mul(Get(v, <<"k","H","_","P","x">>), Get(v, <<"x","_","i","_","l","i","q">>))
    []
    key = "henry_px" /\ target = <<"k","H","_","P","x">> ->   \* 509: v["p"] / v["x_i_liq"]
      Div(Get(v, <<"p">>), Get(v, <<"x","_","i","_","l","i","q">>))
    []
    key = "henry_px" /\ target = <<"x","_","i","_","l","i","q">> ->   \* 510: v["p"] / v["kH_Px"]
      Div(Get(v, <<"p">>), Get(v, <<"k","H","_","P","x">>))
    []
    key = "henry_cp" /\ target = <<"c","_","m">> ->   \* 520: v["kH_cP"] * v["p"]
      Mul(Get(v, <<"k","H","_","c","P">>), Get(v, <<"p">>))
    []
    key = "henry_cp" /\ target = <<"k","H","_","c","P">> ->   \* 522: v["c_m"] / v["p"]
      Div(Get(v, <<"c","_","m">>), Get(v, <<"p">>))
    []
    key = "henry_cp" /\ target = <<"p">> ->   \* 523: v["c_m"] / v["kH_cP"]
      Div(Get(v, <<"c","_","m">>), Get(v, <<"k","H","_","c","P">>))
    []
    key = "osmotic_pressure" /\ target = <<"U+03C0","_","o","s","m">> ->   \* 534: v["i_vH"] * v["c_m"] * v["R"] * v["T"]
      Mul(Mul(Mul(Get(v, <<"i","_","v","H">>), Get(v, <<"c","_","m">>)), Get(v, <<"R">>)), Get(v, <<"T">>))
    []
    key = "osmotic_pressure" /\ target = <<"i","_","v","H">> ->   \* 535: v["π_osm"] / (v["c_m"] * v["R"] * v["T"])
      Div(Get(v, <<"U+03C0","_","o","s","m">>), Mul(Mul(Get(v, <<"c","_","m">>), Get(v, <<"R">>)), Get(v, <<"T">>)))
    []
    key = "osmotic_pressure" /\ target = <<"c","_","m">> ->   \* 536: v["π_osm"] / (v["i_vH"] * v["R"] * v["T"])
      Div(Get(v, <<"U+03C0","_","o","s","m">>), Mul(Mul(Get(v, <<"i","_","v","H">>), Get(v, <<"R">>)), Get(v, <<"T">>)))
    []
    key = "boiling_elevation" /\ target = <<"U+0394","T","b">> ->   \* 547: v["i_vH"] * v["Kb"] * v["m_molal"]
      Mul(Mul(Get(v, <<"i","_","v","H">>), Get(v, <<"K","b">>)), Get(v, <<"m","_","m","o","l","a","l">>))
    []
    key = "boiling_elevation" /\ target = <<"i","_","v","H">> ->   \* 548: v["ΔTb"] / (v["Kb"] * v["m_molal"])
      Div(Get(v, <<"U+0394","T","b">>), Mul(Get(v, <<"K","b">>), Get(v, <<"m","_","m","o","l","a","l">>)))
    []
    key = "boiling_elevation" /\ target = <<"K","b">> ->   \* 549: v["ΔTb"] / (v["i_vH"] * v["m_molal"])
      Div(Get(v, <<"U+0394","T","b">>), Mul(Get(v, <<"i","_","v","H">>), Get(v, <<"m","_","m","o","l","a","l">>)))
    []
    key = "boiling_elevation" /\ target = <<"m","_","m","o","l","a","l">> ->   \* 550: v["ΔTb"] / (v["i_vH"] * v["Kb"])
      Div(Get(v, <<"U+0394","T","b">>), Mul(Get(v, <<"i","_","v","H">>), Get(v, <<"K","b">>)))
    []
    key = "freezing_depression" /\ target = <<"U+0394","T","f">> ->   \* 560: v["i_vH"] * v["Kf"] * v["m_molal"]
      Mul(Mul(Get(v, <<"i","_","v","H">>), Get(v, <<"K","f">>)), Get(v, <<"m","_","m","o","l","a","l">>))
    []
    key = "freezing_depression" /\ target = <<"i","_","v","H">> ->   \* 561: v["ΔTf"] / (v["Kf"] * v["m_molal"])
      Div(Get(v, <<"U+0394","T","f">>), Mul(Get(v, <<"K","f">>), Get(v, <<"m","_","m","o","l","a","l">>)))
    []
    key = "freezing_depression" /\ target = <<"K","f">> ->   \* 562: v["ΔTf"] / (v["i_vH"] * v["m_molal"])
      Div(Get(v, <<"U+0394","T","f">>), Mul(Get(v, <<"i","_","v","H">>), Get(v, <<"m","_","m","o","l","a","l">>)))
    []
    key = "freezing_depression" /\ target = <<"m","_","m","o","l","a","l">> ->   \* 563: v["ΔTf"] / (v["i_vH"] * v["Kf"])
      Div(Get(v, <<"U+0394","T","f">>), Mul(Get(v, <<"i","_","v","H">>), Get(v, <<"K","f">>)))
    []
    key = "total_ion_conc" /\ target = <<"c","_","t","o","t","a","l","_","i","o","n","s">> ->   \* 574: v["i_vH"] * v["c_m"]
      Mul(Get(v, <<"i","_","v","H">>), Get(v, <<"c","_","m">>))
    []
    key = "total_ion_conc" /\ target = <<"i","_","v","H">> ->   \* 575: v["c_total_ions"] / v["c_m"]
      Div(Get(v, <<"c","_","t","o","t","a","l","_","i","o","n","s">>), Get(v, <<"c","_","m">>))
    []
    key = "total_ion_conc" /\ target = <<"c","_","m">> ->   \* 576: v["c_total_ions"] / v["i_vH"]
      Div(Get(v, <<"c","_","t","o","t","a","l","_","i","o","n","s">>), Get(v, <<"i","_","v","H">>))
    []
    OTHER -> [fn |-> <<key, target>>, input |-> v]

\* The mutant of merged_values: the constants override the user's values.
merged_values_constants_win(user_values) ==
  [k \in CONSTANTS_KEYS \cup DOMAIN user_values |->
     IF k \in CONSTANTS_KEYS THEN CONSTANTS_VALUE(k) ELSE user_values[k]]

\* merged = dict(CONSTANTS); merged.update(user_values)
merged_values(user_values) ==
  [k \in CONSTANTS_KEYS \cup DOMAIN user_values |->
     IF k \in DOMAIN user_values THEN user_values[k] ELSE CONSTANTS_VALUE(k)]

\* The mutant of available_keys: the constants are not counted as known.
available_keys_user_only(user_values) == DOMAIN user_values

\* set(merged_values(user_values).keys())
available_keys(user_values) == DOMAIN merged_values(user_values)

\* [v for v in eq["variables"] if v not in known_keys and v not in CONSTANTS]
missing_vars(eq, known_keys) ==
  SelectSeq(eq.variables, LAMBDA v : v \notin known_keys /\ v \notin CONSTANTS_KEYS)

\* The mutant of overlap_total: the constants an equation needs are not counted.
overlap_total_user_only(eq, known_keys) ==
  Cardinality(Range(eq.variables) \cap known_keys)

\* len(vars_set & known_keys) + sum(1 for v in vars_set if v in CONSTANTS and v not in known_keys)
overlap_total(eq, known_keys) ==
  LET vars_set == Range(eq.variables)
      overlap_user == Cardinality(vars_set \cap known_keys)
      overlap_consts == Cardinality({v \in vars_set : v \in CONSTANTS_KEYS /\ v \notin known_keys})
  IN  overlap_user + overlap_consts

is_solvable(eq, missing) ==
  IF Len(missing) = 1 /\ missing[1] \in Range(eq.solve) THEN 1 ELSE 0

\* The mutant of SortKey: the overlap is sorted ascending.
SortKey_overlap_ascending(item) ==
  [solvable |-> -is_solvable(item.eq, item.missing), overlap |-> item.overlap,
   name |-> lower(item.eq.name)]

\* The sort key of a match: (-is_solvable, -overlap, name.lower()).
SortKey(item) ==
  [solvable |-> -is_solvable(item.eq, item.missing), overlap |-> -item.overlap,
   name |-> lower(item.eq.name)]

\* k1 < k2 as Python compares the key tuples.
KeyLess(k1, k2) ==
  \/ k1.solvable < k2.solvable
  \/ k1.solvable = k2.solvable /\ k1.overlap < k2.overlap
  \/ k1.solvable = k2.solvable /\ k1.overlap = k2.overlap /\ StrLess(k1.name, k2.name)

\* list.sort(key=...): stable, so an item goes after the items not greater than it.
RECURSIVE InsertSorted(_, _)
InsertSorted(sorted, item) ==
  IF sorted = <<>> THEN <<item>>
  ELSE IF KeyLess(SortKey(item), SortKey(Head(sorted))) THEN <<item>> \o sorted
  ELSE <<Head(sorted)>> \o InsertSorted(Tail(sorted), item)

RECURSIVE SortMatches(_)
SortMatches(items) ==
  IF items = <<>> THEN <<>>
  ELSE InsertSorted(SortMatches(SubSeq(items, 1, Len(items) - 1)), items[Len(items)])

\* The matches in the order of the bank, before the sort.
Matches(known_keys, min_overlap) ==
  LET all == [i \in DOMAIN EQUATIONS |->
                [eq |-> EQUATIONS[i], missing |-> missing_vars(EQUATIONS[i], known_keys),
                 overlap |-> overlap_total(EQUATIONS[i], known_keys)]]
  IN  SelectSeq(all, LAMBDA item : item.overlap >= min_overlap)

\* find_applicable_equations(known, min_overlap): the list of (eq, missing).
find_applicable_equations(known, min_overlap) ==
  LET sorted == SortMatches(Matches(DOMAIN known, min_overlap))
  IN  [i \in DOMAIN sorted |-> [eq |-> sorted[i].eq, missing |-> sorted[i].missing]]

\* can_solve(eq, known_vars): <<>> for None, <<t>> for the variable t.
can_solve(eq, known_vars) ==
  LET needed == Range(eq.variables)
      unknowns == needed \ available_keys(known_vars)
  IN  IF Cardinality(unknowns) = 1 /\ (CHOOSE u \in unknowns : TRUE) \in Range(eq.solve)
      THEN <<CHOOSE u \in unknowns : TRUE>>
      ELSE <<>>

\* The mutant of required_values: every merged value is passed to the solver.
required_values_unrestricted(eq, values) == merged_values(values)

\* required = {k: v[k] for k in eq["variables"] if k in v}, v the merged values
required_values(eq, values) ==
  LET v == merged_values(values)
  IN  [k \in Range(eq.variables) \cap DOMAIN v |-> v[k]]

\* solve_for(eq, target, values): ValueError when target has no solver.  The
\* result is float(solver(required)); float() leaves the value of a number as
\* it is and an exception of the solver passes through it.
solve_for(eq, target, values) ==
  IF target \notin Range(eq.solve) THEN PyError("ValueError")
  ELSE Solver(eq.key, target, required_values(eq, values))

\* ------------------------------------------------------------------------
\* aliases.py: unit conversion.  No unit (None) and the empty unit are <<>>.
\* ------------------------------------------------------------------------
\* VARIABLES.get(canonical, {}).get("units", {}).get("choices", {})
unit_choices(canonical) ==
  IF \E v \in DOMAIN VARIABLES_TABLE : VARIABLES_TABLE[v].key = canonical
  THEN VARIABLES_TABLE[CHOOSE v \in DOMAIN VARIABLES_TABLE : VARIABLES_TABLE[v].key = canonical].choices
  ELSE <<>>

\* units_for(canonical): list(choices.keys())
units_for(canonical) ==
  [i \in DOMAIN unit_choices(canonical) |-> unit_choices(canonical)[i].unit]

unit_choice(canonical, unit) ==
  unit_choices(canonical)[CHOOSE i \in DOMAIN unit_choices(canonical) :
                            unit_choices(canonical)[i].unit = unit]

\* value * f + off; unchanged when the unit is missing or unknown
convert_to_base(canonical, value, unit) ==
  IF unit = <<>> \/ unit \notin Range(units_for(canonical)) THEN value
  ELSE Add(Mul(value, unit_choice(canonical, unit).factor), unit_choice(canonical, unit).offset)

\* The mutant of convert_from_base: base / f, the offset left in.
convert_from_base_no_offset(canonical, base_value, unit) ==
  IF unit = <<>> \/ unit \notin Range(units_for(canonical)) THEN base_value
  ELSE Div(base_value, unit_choice(canonical, unit).factor)

\* (base - off) / f; unchanged when the unit is missing or unknown
convert_from_base(canonical, base_value, unit) ==
  IF unit = <<>> \/ unit \notin Range(units_for(canonical)) THEN base_value
  ELSE Div(Sub(base_value, unit_choice(canonical, unit).offset), unit_choice(canonical, unit).factor)

\* ------------------------------------------------------------------------
\* gui.py: ChemGUI._parse_reaction, the reaction parser of the ICE tool
\* ------------------------------------------------------------------------
ARROW == <<"-", ">">>

AsciiLetters ==
  {"A", "B", "C", "D", "E", "F", "G", "H", "I", "J", "K", "L", "M", "N", "O", "P", "Q", "R", "S",
   "T", "U", "V", "W", "X", "Y", "Z", "a", "b", "c", "d", "e", "f", "g", "h", "i", "j", "k", "l",
   "m", "n", "o", "p", "q", "r", "s", "t", "u", "v", "w", "x", "y", "z"}

\* The character class [A-Za-z0-9()^+\-·_] of a species.
SpeciesChars ==
  AsciiLetters \cup {"0", "1", "2", "3", "4", "5", "6", "7", "8", "9"}
               \cup {"(", ")", "^", "+", "-", "U+00B7", "_"}

DigitValue(ch) == CHOOSE d \in 0..9 : <<"0", "1", "2", "3", "4", "5", "6", "7", "8", "9">>[d + 1] = ch

RECURSIVE DigitsValue(_)
DigitsValue(ds) ==
  IF ds = <<>> THEN 0 ELSE 10 * DigitsValue(SubSeq(ds, 1, Len(ds) - 1)) + DigitValue(ds[Len(ds)])

\* float(coef) for a text matched by \d*\.?\d*: "." alone raises ValueError.
FloatOf(coef) ==
  LET dot == Find(coef, <<".">>, 1)
      digits == SelectSeq(coef, IsDigit)
  IN  IF digits = <<>> THEN PyError("ValueError")
      ELSE Dec(DigitsValue(digits), IF dot = 0 THEN 0 ELSE -(Len(coef) - dot))

\* re.match(r"^\s*(\d*\.?\d*)\s*([A-Za-z0-9()^+\-·_]+)\s*$", term) on a stripped
\* term: the coefficient is d1 digits, an optional dot and d2 digits; blanks
\* follow, and the species runs to the end.  Each quantifier is greedy, so the
\* first match in the order the engine tries them is the largest (d1, dot, d2).
TermSplits(term) ==
  {c \in (0..Len(term)) \X (0..1) \X (0..Len(term)) :
     LET p == c[1] + c[2] + c[3]
         blanks == {k \in (p + 1)..Len(term) : \A i \in (p + 1)..k : IsSpace(term[i])}
         b == IF blanks = {} THEN p ELSE Max(blanks)
     IN  /\ p <= Len(term)
         /\ \A i \in 1..c[1] : IsDigit(term[i])
         /\ c[2] = 1 => term[c[1] + 1] = "."
         /\ \A i \in (c[1] + c[2] + 1)..p : IsDigit(term[i])
         /\ b < Len(term)
         /\ \A i \in (b + 1)..Len(term) : term[i] \in SpeciesChars}

TermMatch(term) ==
  LET splits == TermSplits(term)
      Before(c, o) == \/ c[1] > o[1]
                      \/ c[1] = o[1] /\ c[2] > o[2]
                      \/ c[1] = o[1] /\ c[2] = o[2] /\ c[3] > o[3]
      c == CHOOSE x \in splits : \A o \in splits \ {x} : Before(x, o)
      p == c[1] + c[2] + c[3]
  IN  IF splits = {} THEN [coef |-> <<>>, sp |-> term]
      ELSE [coef |-> SubSeq(term, 1, p), sp |-> strip(SubSeq(term, p + 1, Len(term)))]

\* What a parse returns: the dict (ok) or the exception raised.
EmptyDict == [k \in {} |-> Zero]

Ok(st) == [ok |-> TRUE, st |-> st, error |-> ""]

Err(msg) == [ok |-> FALSE, st |-> EmptyDict, error |-> msg]

\* One term of a side added to the species dict:
\* species[sp] = species.get(sp, 0.0) + sign*nu, or float(coef) raises.
AddTerm(species, term, sign) ==
  LET m == TermMatch(term)
      nu == IF m.coef = <<>> THEN Dec(1, 0) ELSE FloatOf(m.coef)
      signed == IF sign < 0 THEN Neg(nu) ELSE nu
  IN  IF ~IsNum(nu) THEN Err("ValueError: could not convert string to float")
      ELSE Ok([k \in DOMAIN species \cup {m.sp} |->
                 IF k = m.sp
                 THEN (IF k \in DOMAIN species THEN Add(species[k], signed) ELSE signed)
                 ELSE species[k]])

RECURSIVE AddTerms(_, _, _)
AddTerms(side, terms, sign) ==
  IF terms = <<>> \/ ~side.ok THEN side
  ELSE AddTerms(IF strip(Head(terms)) = <<>> THEN side
                ELSE AddTerm(side.st, strip(Head(terms)), sign),
                Tail(terms), sign)

\* parse_side(side, sign): the terms between the "+" of the side.
parse_side(side, sign) ==
  IF side = <<>> THEN Ok(EmptyDict) ELSE AddTerms(Ok(EmptyDict), split(side, <<"+">>), sign)

\* The four replacements that turn an arrow into "->".
ReplaceArrows(s) ==
  replace(replace(replace(replace(s, <<"U+21CC">>, ARROW), <<"U+2194">>, ARROW), <<"U+27F7">>, ARROW),
          <<"=">>, ARROW)

\* st: the left side's dict, then the right side's added to it.
MergeSides(left, right) ==
  [k \in DOMAIN left \cup DOMAIN right |->
     IF k \in DOMAIN left /\ k \in DOMAIN right THEN Add(left[k], right[k])
     ELSE IF k \in DOMAIN left THEN left[k] ELSE right[k]]

\* The mutant of OneSigned: only all(v >= 0 ...) is looked at.
OneSigned_nonnegative(st) == \A k \in DOMAIN st : st[k].n >= 0

\* all(v >= 0 ...) or all(v <= 0 ...)
OneSigned(st) == (\A k \in DOMAIN st : st[k].n >= 0) \/ (\A k \in DOMAIN st : st[k].n <= 0)

\* _parse_reaction(s): the dict species -> nu, or the error raised.
_parse_reaction(text) ==
  LET s == ReplaceArrows(text)
      parts == split1(s, ARROW)
      left == parse_side(strip(parts[1]), -1)
      right == parse_side(strip(parts[2]), 1)
  IN  IF Find(s, ARROW, 1) = 0 THEN Err("ValueError: Use an arrow")
      ELSE IF ~left.ok THEN left
      ELSE IF ~right.ok THEN right
      ELSE IF OneSigned(MergeSides(left.st, right.st))
           THEN Err("ValueError: Reaction needs reactants and products")
      ELSE Ok(MergeSides(left.st, right.st))


\* ------------------------------------------------------------------------
\* gui.py: go of the net ionic tool, the split of the text at its arrow
\* ------------------------------------------------------------------------
\* The alternatives of arrow_pat, (?:->|→|=>|=), in the order they are tried.
GoArrows == <<ARROW, <<"U+2192">>, <<"=", ">">>, <<"=">>>>

\* The length of the arrow that matches at position j of s, 0 when none does.
ArrowLenAt(s, j) ==
  LET hits == {a \in DOMAIN GoArrows :
                 /\ j + Len(GoArrows[a]) - 1 <= Len(s)
                 /\ SubSeq(s, j, j + Len(GoArrows[a]) - 1) = GoArrows[a]}
  IN  IF hits = {} THEN 0 ELSE Len(GoArrows[Min(hits)])

\* re.search(arrow_pat, s): the leftmost match of \s*(arrow)\s* ends the
\* blanks before the first arrow of s; <<>> when s has no arrow.
ArrowSearch(s) ==
  LET starts == {j \in 1..Len(s) : ArrowLenAt(s, j) > 0}
      j0 == Min(starts)
      first == Min({i \in 1..j0 : \A k \in i..(j0 - 1) : IsSpace(s[k])})
      arrowEnd == j0 + ArrowLenAt(s, j0) - 1
      last == Max({e \in arrowEnd..Len(s) : \A k \in (arrowEnd + 1)..e : IsSpace(s[k])})
  IN  IF starts = {} THEN <<>> ELSE <<first, last>>

\* The sides go parses: the two entries, or the parts of the left entry
\* around its first arrow when the right entry is empty.
go_sides(eL, eR) ==
  LET L_raw == strip(eL)
      R_raw == strip(eR)
      found == ArrowSearch(L_raw)
  IN  IF R_raw = <<>> /\ found # <<>>
      THEN <<SubSeq(L_raw, 1, found[1] - 1), SubSeq(L_raw, found[2] + 1, Len(L_raw))>>
      ELSE <<L_raw, R_raw>>
\* ------------------------------------------------------------------------
\* gui.py: the net ionic tool, its parsing helpers.  None is <<>>.
\* ------------------------------------------------------------------------
\* The start of the run of characters with P that ends before position i.
BackWhile(s, i, P(_)) == 1 + Max({0} \cup {k \in 1..(i - 1) : ~P(s[k])})

\* The end (exclusive) of the run of characters with P that starts at i.
FwdWhile(s, i, P(_)) == Min({Len(s) + 1} \cup {k \in i..Len(s) : ~P(s[k])})

\* _split_species_list(s): [t.strip() for t in re.split(r"\s+\+\s+", s.strip())
\* if t.strip()].  A "+" with whitespace on both sides ends a piece; the
\* whitespace after it is consumed with it.
_split_species_list(s) ==
  LET RECURSIVE SplitAtPlus(_)
      SplitAtPlus(t) ==
        LET hits == {j \in 2..(Len(t) - 1) :
                       t[j] = "+" /\ IsSpace(t[j - 1]) /\ IsSpace(t[j + 1])}
        IN  IF hits = {} THEN <<t>>
            ELSE <<SubSeq(t, 1, BackWhile(t, Min(hits), IsSpace) - 1)>>
                   \o SplitAtPlus(SubSeq(t, FwdWhile(t, Min(hits) + 1, IsSpace), Len(t)))
      pieces == SplitAtPlus(strip(s))
  IN  SelectSeq([i \in DOMAIN pieces |-> strip(pieces[i])], LAMBDA t : t # <<>>)

\* _read_charge(s): <<core, chg>>.  The leftmost match of
\* (?:\^?\s*([+-]?\d+)?\s*([+-]))\s*$ ends at the sign that ends s and takes
\* in, before it, whitespace, the digits with their sign, whitespace and "^".
_read_charge(s) ==
  LET IsSign(ch) == ch \in {"+", "-"}
      p == BackWhile(s, Len(s) + 1, IsSpace) - 1
      a == BackWhile(s, p, IsSpace)
      b == BackWhile(s, a, IsDigit)
      c == IF b < a /\ b > 1 /\ IsSign(s[b - 1]) THEN b - 1 ELSE b
      w == BackWhile(s, c, IsSpace)
      start == IF w > 1 /\ s[w - 1] = "^" THEN w - 1 ELSE w
      num == IF b = a THEN 1
             ELSE IF s[c] = "-" THEN -DigitsValue(SubSeq(s, b, a - 1))
             ELSE DigitsValue(SubSeq(s, b, a - 1))
  IN  IF p >= 1 /\ IsSign(s[p])
      THEN <<strip(SubSeq(s, 1, start - 1)), IF s[p] = "+" THEN num ELSE -num>>
      ELSE <<s, 0>>

\* _strip_phase_and_ws(s): re.sub(r"\([a-z]{1,3}\)\s*", "", s.strip(),
\* flags=re.I) removes every "(", one to three letters and ")" with the
\* whitespace after it; then "·" and " " are removed.
_strip_phase_and_ws(s) ==
  LET IsLetter(ch) == ch \in AsciiLetters
      RECURSIVE RemovePhases(_)
      RemovePhases(t) ==
        LET hits == {i \in 1..Len(t) :
                       /\ t[i] = "("
                       /\ \E k \in 1..3 : /\ i + k + 1 <= Len(t)
                                          /\ \A j \in 1..k : IsLetter(t[i + j])
                                          /\ t[i + k + 1] = ")"}
            close == FwdWhile(t, Min(hits) + 1, IsLetter)
        IN  IF hits = {} THEN t
            ELSE SubSeq(t, 1, Min(hits) - 1)
                   \o RemovePhases(SubSeq(t, FwdWhile(t, close + 1, IsSpace), Len(t)))
  IN  SelectSeq(RemovePhases(strip(s)), LAMBDA ch : ch \notin {"U+00B7", " "})

\* _tokenize(formula): Ok of the dict element -> count, or Err of the
\* exception raised.  TokenizeFrom is the loop from position i with the stack
\* of dicts; PushAll is push(k, v*mult) for every item of grp.
_tokenize(formula) ==
  LET n == Len(formula)
      IsAlpha(ch) == ch \in AsciiLetters \cup Range(UpperChars) \cup Range(LowerChars)
      IsLower(ch) == ch \in Range(LowerChars)
      PushAll(d, grp, mult) ==
        [E \in DOMAIN d \cup DOMAIN grp |->
           (IF E \in DOMAIN d THEN d[E] ELSE 0) + (IF E \in DOMAIN grp THEN grp[E] * mult ELSE 0)]
      RECURSIVE TokenizeFrom(_, _)
      TokenizeFrom(i, stack) ==
        LET top == Len(stack)
            sym == IF i < n /\ IsLower(formula[i + 1]) THEN SubSeq(formula, i, i + 1)
                   ELSE <<formula[i]>>
            from == IF formula[i] = ")" THEN i + 1 ELSE i + Len(sym)
            j == FwdWhile(formula, from, IsDigit)
            cnt == IF j = from THEN 1 ELSE DigitsValue(SubSeq(formula, from, j - 1))
        IN  IF i > n
            THEN IF top # 1 THEN Err("ValueError: Unmatched parentheses") ELSE Ok(stack[1])
            ELSE IF formula[i] = "("
            THEN TokenizeFrom(i + 1, Append(stack, <<>>))
            ELSE IF formula[i] = ")"
            THEN IF top = 0 THEN Err("IndexError: pop from empty list")
                 ELSE IF DOMAIN stack[top] = {} THEN TokenizeFrom(j, SubSeq(stack, 1, top - 1))
                 ELSE IF top = 1 THEN Err("IndexError: list index out of range")
                 ELSE TokenizeFrom(j, [SubSeq(stack, 1, top - 1) EXCEPT
                                         ![top - 1] = PushAll(@, stack[top], cnt)])
            ELSE IF ~IsAlpha(formula[i]) THEN Err("ValueError: Unexpected token")
            ELSE IF top = 0 THEN Err("IndexError: list index out of range")
            ELSE TokenizeFrom(j, [stack EXCEPT ![top] = PushAll(@, [E \in {sym} |-> cnt], 1)])
  IN  TokenizeFrom(1, <<<<>>>>)

\* parse_species_token(tok): Ok of the record of the species, or Err of the
\* exception _tokenize raised.  The steps of it, last first: the record of
\* the atoms counted; the charge read off what is left of the token; m, the
\* match of \((s|l|g|aq)\)\s*$ without regard to case (the position it starts
\* at and the phase, lowered) in s1, the token without its coefficient.
species_record(coeff, phase, cc, atoms) ==
  IF atoms.ok
  THEN Ok([coeff |-> coeff, core |-> cc[1], phase |-> phase, charge |-> cc[2],
           atoms |-> atoms.st])
  ELSE atoms

species_charge(coeff, phase, cc) ==
  species_record(coeff, phase, cc, _tokenize(_strip_phase_and_ws(cc[1])))

species_phase(coeff, s1) ==
  LET e == Len(s1)
      m == IF e >= 3 /\ s1[e] = ")" /\ s1[e - 2] = "(" /\ LowerChar(s1[e - 1]) \in {"s", "l", "g"}
           THEN <<e - 2, <<LowerChar(s1[e - 1])>>>>
           ELSE IF e >= 4 /\ s1[e] = ")" /\ s1[e - 3] = "("
                   /\ lower(SubSeq(s1, e - 2, e - 1)) = <<"a", "q">>
           THEN <<e - 3, <<"a", "q">>>>
           ELSE <<>>
  IN  species_charge(coeff, IF m = <<>> THEN <<>> ELSE m[2],
                     _read_charge(IF m = <<>> THEN s1 ELSE strip(SubSeq(s1, 1, m[1] - 1))))

species_coefficient(s0, d) ==
  species_phase(IF d = 1 THEN 1 ELSE DigitsValue(SubSeq(s0, 1, d - 1)),
                IF d = 1 THEN s0 ELSE strip(SubSeq(s0, d, Len(s0))))

species_stripped(s0) == species_coefficient(s0, FwdWhile(s0, 1, IsDigit))

parse_species_token(tok) == species_stripped(strip(tok))

\* parse_side(s) of the net ionic tool: Ok of the list of the species of the
\* side, or Err of the first exception raised.
parse_side_collect(specs, failed) ==
  IF failed = {} THEN Ok([i \in DOMAIN specs |-> specs[i].st])
  ELSE specs[Min(failed)]

parse_side_species(specs) == parse_side_collect(specs, {i \in DOMAIN specs : ~specs[i].ok})

parse_side_tokens(toks) ==
  parse_side_species([i \in DOMAIN toks |-> parse_species_token(toks[i])])

parse_side_net_ionic(s) == parse_side_tokens(_split_species_list(s))
\* ------------------------------------------------------------------------
\* gui.py: the net ionic tool, its dissociation rules
\* ------------------------------------------------------------------------
\* POLY, in the order of the dict: the anion and its charge.
POLY ==
  <<[an |-> <<"N","O","3">>, z |-> -1],
    [an |-> <<"N","O","2">>, z |-> -1],
    [an |-> <<"C","l","O","4">>, z |-> -1],
    [an |-> <<"C","l","O","3">>, z |-> -1],
    [an |-> <<"C","l","O">>, z |-> -1],
    [an |-> <<"C","N">>, z |-> -1],
    [an |-> <<"O","H">>, z |-> -1],
    [an |-> <<"S","C","N">>, z |-> -1],
    [an |-> <<"C","2","H","3","O","2">>, z |-> -1],
    [an |-> <<"C","H","3","C","O","O">>, z |-> -1],
    [an |-> <<"S","O","4">>, z |-> -2],
    [an |-> <<"S","O","3">>, z |-> -2],
    [an |-> <<"C","O","3">>, z |-> -2],
    [an |-> <<"S">>, z |-> -2],
    [an |-> <<"C","r","2","O","7">>, z |-> -2],
    [an |-> <<"H","C","O","3">>, z |-> -1],
    [an |-> <<"H","S","O","4">>, z |-> -1],
    [an |-> <<"P","O","4">>, z |-> -3],
    [an |-> <<"H","P","O","4">>, z |-> -2],
    [an |-> <<"H","2","P","O","4">>, z |-> -1],
    [an |-> <<"M","n","O","4">>, z |-> -1]>>

\* STRONG_ACIDS: the formula and the ions it dissociates into.
STRONG_ACIDS ==
  <<[formula |-> <<"H","C","l">>,
     ions |-> <<<<"H","^","+">>, <<"C","l","^","-">>>>],
    [formula |-> <<"H","B","r">>,
     ions |-> <<<<"H","^","+">>, <<"B","r","^","-">>>>],
    [formula |-> <<"H","I">>,
     ions |-> <<<<"H","^","+">>, <<"I","^","-">>>>],
    [formula |-> <<"H","N","O","3">>,
     ions |-> <<<<"H","^","+">>, <<"N","O","3","^","-">>>>],
    [formula |-> <<"H","C","l","O","3">>,
     ions |-> <<<<"H","^","+">>, <<"C","l","O","3","^","-">>>>],
    [formula |-> <<"H","C","l","O","4">>,
     ions |-> <<<<"H","^","+">>, <<"C","l","O","4","^","-">>>>],
    [formula |-> <<"H","2","S","O","4">>,
     ions |-> <<<<"H","^","+">>, <<"H","^","+">>, <<"S","O","4","^","2","-">>>>]>>

\* STRONG_BASES
STRONG_BASES ==
  <<[formula |-> <<"N","a","O","H">>,
     ions |-> <<<<"N","a","^","+">>, <<"O","H","^","-">>>>],
    [formula |-> <<"K","O","H">>,
     ions |-> <<<<"K","^","+">>, <<"O","H","^","-">>>>],
    [formula |-> <<"L","i","O","H">>,
     ions |-> <<<<"L","i","^","+">>, <<"O","H","^","-">>>>],
    [formula |-> <<"R","b","O","H">>,
     ions |-> <<<<"R","b","^","+">>, <<"O","H","^","-">>>>],
    [formula |-> <<"C","s","O","H">>,
     ions |-> <<<<"C","s","^","+">>, <<"O","H","^","-">>>>],
    [formula |-> <<"B","a","(","O","H",")","2">>,
     ions |-> <<<<"B","a","^","2","+">>, <<"O","H","^","-">>, <<"O","H","^","-">>>>],
    [formula |-> <<"S","r","(","O","H",")","2">>,
     ions |-> <<<<"S","r","^","2","+">>, <<"O","H","^","-">>, <<"O","H","^","-">>>>],
    [formula |-> <<"C","a","(","O","H",")","2">>,
     ions |-> <<<<"C","a","^","2","+">>, <<"O","H","^","-">>, <<"O","H","^","-">>>>]>>

GROUP1 == {<<"L","i">>, <<"N","a">>, <<"K">>, <<"R","b">>, <<"C","s">>, <<"F","r">>}

GROUP2 == {<<"B","e">>, <<"M","g">>, <<"C","a">>, <<"S","r">>, <<"B","a">>, <<"R","a">>}

NH4 == <<"N","H","4">>
\* str(n) of an integer n >= 0
RECURSIVE IntStr(_)
IntStr(n) ==
  LET d == <<"0", "1", "2", "3", "4", "5", "6", "7", "8", "9">>[(n % 10) + 1]
  IN  IF n < 10 THEN <<d>> ELSE IntStr(n \div 10) \o <<d>>

\* The mutant of as_ion_str: the magnitude of the charge is left out.
as_ion_str_no_magnitude(elem, z) == elem \o (IF z > 0 THEN <<"+">> ELSE <<"-">>)

\* as_ion_str(elem, z): f"{elem}{'^'+str(mag) if mag>1 else ''}{sign}"
as_ion_str(elem, z) ==
  elem \o (IF Abs(z) > 1 THEN <<"^">> \o IntStr(Abs(z)) ELSE <<>>)
       \o (IF z > 0 THEN <<"+">> ELSE <<"-">>)

\* [(i, ions.count(i)) for i in sorted(set(ions), key=ions.index)]
ion_counts(ions) ==
  LET firsts == SelectSeq([i \in DOMAIN ions |-> i],
                          LAMBDA i : \A j \in 1..(i - 1) : ions[j] # ions[i])
  IN  [k \in DOMAIN firsts |->
         <<ions[firsts[k]], Cardinality({j \in DOMAIN ions : ions[j] = ions[firsts[k]]})>>]

\* The entry of STRONG_ACIDS or STRONG_BASES for bare, if any.
tabulated(table, bare) ==
  IF \E i \in DOMAIN table : table[i].formula = bare
  THEN <<table[CHOOSE i \in DOMAIN table : table[i].formula = bare]>>
  ELSE <<>>

\* \d*$ from a position of bare, and int(... or "1") of it
all_digits(bare, from) == \A j \in from..Len(bare) : IsDigit(bare[j])

count_from(bare, from) ==
  IF from > Len(bare) THEN 1 ELSE DigitsValue(SubSeq(bare, from, Len(bare)))

\* re.search(rf"(?:\({an}\)|{an})(\d*)$", bare): the position the match
\* starts at and int(m.group(1) or "1"), or <<>>.
anion_search(bare, an) ==
  LET n == Len(bare)
      at == {p \in 1..(n - Len(an) + 1) : SubSeq(bare, p, p + Len(an) - 1) = an}
      plain == {p \in at : all_digits(bare, p + Len(an))}
      paren == {p \in at : /\ p > 1 /\ bare[p - 1] = "("
                           /\ p + Len(an) <= n /\ bare[p + Len(an)] = ")"
                           /\ all_digits(bare, p + Len(an) + 1)}
  IN  IF paren # {} /\ (plain = {} \/ Min(paren) - 1 < Min(plain))
      THEN <<Min(paren) - 1, count_from(bare, Min(paren) + Len(an) + 1)>>
      ELSE IF plain # {} THEN <<Min(plain), count_from(bare, Min(plain) + Len(an))>>
      ELSE <<>>

\* The rule of the simple binary chlorides, on the match of
\* ^([A-Z][a-z]?)(\d*)Cl(\d*)$: el from 1 to e - 1, n1 from e to d1 - 1.
chloride_ions(bare, el, n1, n2) ==
  LET z_cat == IF el \in GROUP1 THEN 1
               ELSE IF el \in GROUP2 THEN 2
               ELSE IF n2 \div Max({n1, 1}) = 0 THEN 1 ELSE n2 \div Max({n1, 1})
  IN  Ok(<<<<as_ion_str(el, z_cat), n1>>, <<<<"C", "l", "^", "-">>, n2>>>>)

chloride_match(bare, e, d1) ==
  IF /\ Len(bare) >= 1 /\ bare[1] \in Range(UpperChars) \cap AsciiLetters
     /\ d1 + 1 <= Len(bare) /\ SubSeq(bare, d1, d1 + 1) = <<"C", "l">>
     /\ all_digits(bare, d1 + 2)
  THEN chloride_ions(bare, SubSeq(bare, 1, e - 1),
                     IF d1 = e THEN 1 ELSE DigitsValue(SubSeq(bare, e, d1 - 1)),
                     count_from(bare, d1 + 2))
  ELSE Ok(<<>>)

chloride_element(bare, e) == chloride_match(bare, e, FwdWhile(bare, e, IsDigit))

chloride(bare) ==
  chloride_element(bare, IF Len(bare) >= 2 /\ bare[2] \in Range(LowerChars) \cap AsciiLetters
                         THEN 3 ELSE 2)

\* The loop over POLY from its k-th anion, then the chlorides.  m is the
\* match of the anion, cat_block what stands before it without its trailing
\* parentheses, toks its atoms.
RECURSIVE salt(_, _)
salt_cation(bare, k, m, cat_block, toks) ==
  LET an == POLY[k].an
      z_an == POLY[k].z
      count_an == m[2]
      total_an == count_an * z_an
      cat_unit == IF cat_block = NH4 THEN NH4 ELSE CHOOSE E \in DOMAIN toks.st : TRUE
      z_known == IF cat_block = NH4 \/ cat_unit \in GROUP1 THEN 1
                 ELSE IF cat_unit \in GROUP2 THEN 2 ELSE 0
      z_cat_unit == IF z_known # 0 THEN z_known ELSE -total_an
      n_c == IF Abs(total_an) \div Abs(z_cat_unit) = 0 THEN 1
             ELSE Abs(total_an) \div Abs(z_cat_unit)
  IN  IF cat_block # NH4 /\ ~toks.ok THEN Err(toks.error)
      ELSE IF cat_block # NH4 /\ Cardinality(DOMAIN toks.st) # 1 THEN salt(bare, k + 1)
      ELSE IF z_cat_unit = 0 THEN salt(bare, k + 1)
      ELSE Ok(<<<<as_ion_str(cat_unit, z_cat_unit), n_c>>,
                <<as_ion_str(an, z_an), count_an>>>>)

salt_block(bare, k, m, cat_block) ==
  IF cat_block = <<>> THEN salt(bare, k + 1)
  ELSE salt_cation(bare, k, m, cat_block, _tokenize(cat_block))

salt_before(bare, k, m, cut) ==
  salt_block(bare, k, m,
             SubSeq(cut, 1, BackWhile(cut, Len(cut) + 1, LAMBDA ch : ch \in {"(", ")"}) - 1))

salt_match(bare, k, m) ==
  IF m = <<>> THEN salt(bare, k + 1) ELSE salt_before(bare, k, m, SubSeq(bare, 1, m[1] - 1))

salt(bare, k) ==
  IF k > Len(POLY) THEN chloride(bare) ELSE salt_match(bare, k, anion_search(bare, POLY[k].an))

\* try_dissociate(spec): Ok of the list of (ion_str, count), Ok of None when
\* the species is left as a molecule, or Err of the exception raised.
dissociate_bare(spec, bare, acid, base) ==
  IF spec.phase # <<"a", "q">> THEN Ok(<<>>)
  ELSE IF spec.charge # 0 THEN Ok(<<<<as_ion_str(bare, spec.charge), 1>>>>)
  ELSE IF acid # <<>> THEN Ok(ion_counts(acid[1].ions))
  ELSE IF base # <<>> THEN Ok(ion_counts(base[1].ions))
  ELSE salt(bare, 1)

dissociate_tables(spec, bare) ==
  dissociate_bare(spec, bare, tabulated(STRONG_ACIDS, bare), tabulated(STRONG_BASES, bare))

try_dissociate(spec) == dissociate_tables(spec, _strip_phase_and_ws(spec.core))

\* dissociate_side(specs) with the checkbox "Inputs are already ionic" as
\* already_ionic: Ok of the list of (label, count), or Err.
species_molecule(sp) ==
  sp.core \o (IF sp.phase = <<>> THEN <<>> ELSE <<"(">> \o sp.phase \o <<")">>)

species_entered(sp) ==
  IF sp.charge # 0
  THEN <<<<as_ion_str(_strip_phase_and_ws(sp.core), sp.charge), sp.coeff>>>>
  ELSE <<<<species_molecule(sp), sp.coeff>>>>

species_ions(sp, ds) ==
  IF ds.st = <<>> THEN <<<<species_molecule(sp), sp.coeff>>>>
  ELSE [i \in DOMAIN ds.st |-> <<ds.st[i][1], sp.coeff * ds.st[i][2]>>]

side_extend(ionic, rest) == IF ~rest.ok THEN rest ELSE Ok(ionic \o rest.st)

RECURSIVE dissociate_side(_, _)
side_dissociated(specs, already_ionic, ds) ==
  IF ~ds.ok THEN ds
  ELSE side_extend(species_ions(Head(specs), ds), dissociate_side(Tail(specs), already_ionic))

dissociate_side(specs, already_ionic) ==
  IF specs = <<>> THEN Ok(<<>>)
  ELSE IF already_ionic
  THEN side_extend(species_entered(Head(specs)), dissociate_side(Tail(specs), already_ionic))
  ELSE side_dissociated(specs, already_ionic, try_dissociate(Head(specs)))

\* count_ionic_side(side): the dict label -> count in the order of insertion,
\* as the list of its items.
count_add(before, last) ==
  IF \E i \in DOMAIN before : before[i][1] = last[1]
  THEN [i \in DOMAIN before |->
          IF before[i][1] = last[1] THEN <<last[1], before[i][2] + last[2]>> ELSE before[i]]
  ELSE Append(before, last)

RECURSIVE count_ionic_side(_)
count_ionic_side(side) ==
  IF side = <<>> THEN <<>>
  ELSE count_add(count_ionic_side(SubSeq(side, 1, Len(side) - 1)), side[Len(side)])
\* ------------------------------------------------------------------------
\* gui.py: the net ionic tool, its two balancers.  A Fraction is <<n, d>> in
\* lowest terms with d > 0; a dict in the order of insertion is the list of
\* its items.
\* ------------------------------------------------------------------------
Fraction(n, d) ==
  LET g == Gcd(Abs(n), Abs(d))
  IN  IF d < 0 THEN <<(-n) \div g, (-d) \div g>> ELSE <<n \div g, d \div g>>

\* x - f*y of three Fractions
FrSubMul(x, f, y) == Fraction(x[1] * f[2] * y[2] - f[1] * y[1] * x[2], x[2] * f[2] * y[2])

\* x / y of two Fractions, y not 0
FrDiv(x, y) == Fraction(x[1] * y[2], x[2] * y[1])

\* sorted(S) of a set of str
RECURSIVE Sorted(_)
Sorted(S) ==
  IF S = {} THEN <<>>
  ELSE LET m == CHOOSE x \in S : \A y \in S \ {x} : StrLess(x, y)
       IN  <<m>> \o Sorted(S \ {m})

\* The Gauss-Jordan elimination of both balancers on the rows of Fractions:
\* the loop "while r<R and c<C" from row r and column c, piv[r] = 0 for
\* Python's -1.  <<A, piv>> when it ends.
RECURSIVE gauss_reduce(_, _, _, _)
gauss_pivot(A, piv, r, c, S) ==
  LET rowr == [j \in DOMAIN S[r] |-> FrDiv(S[r][j], S[r][c])]
  IN  gauss_reduce([i \in DOMAIN S |->
                      IF i = r THEN rowr
                      ELSE IF S[i][c][1] = 0 THEN S[i]
                      ELSE [j \in DOMAIN S[i] |-> FrSubMul(S[i][j], S[i][c], rowr[j])]],
                   [piv EXCEPT ![r] = c], r + 1, c + 1)

gauss_candidates(A, piv, r, c, cand) ==
  IF cand = {} THEN gauss_reduce(A, piv, r, c + 1)
  ELSE gauss_pivot(A, piv, r, c, [A EXCEPT ![r] = A[Min(cand)], ![Min(cand)] = A[r]])

gauss_reduce(A, piv, r, c) ==
  IF r > Len(A) \/ c > Len(A[1]) THEN <<A, piv>>
  ELSE gauss_candidates(A, piv, r, c, {i \in r..Len(A) : A[i][c][1] # 0})

\* sum(A[i][j]*sol[j] for j in range(from, C))
RECURSIVE row_sum(_, _, _)
fraction_add(x, y) == Fraction(x[1] * y[2] + y[1] * x[2], x[2] * y[2])

row_sum(row, sol, j) ==
  IF j > Len(row) THEN <<0, 1>>
  ELSE fraction_add(<<row[j][1] * sol[j][1], row[j][2] * sol[j][2]>>, row_sum(row, sol, j + 1))

\* The loop "for i in reversed(range(R))" from row i with sol.
RECURSIVE back_substitute(_, _, _, _)
back_set(A, piv, i, sol, s) ==
  back_substitute(A, piv, i - 1, [sol EXCEPT ![piv[i]] = <<-s[1], s[2]>>])

back_substitute(A, piv, i, sol) ==
  IF i = 0 THEN sol
  ELSE IF piv[i] = 0 THEN back_substitute(A, piv, i - 1, sol)
  ELSE back_set(A, piv, i, sol, row_sum(A[i], sol, piv[i] + 1))

\* The lcm of the denominators of sol[1..j], and sol scaled by it.
RECURSIVE denominators_lcm(_, _)
lcm_join(l, d) == (l * d) \div Gcd(l, d)

denominators_lcm(sol, j) ==
  IF j = 0 THEN 1 ELSE lcm_join(denominators_lcm(sol, j - 1), sol[j][2])

scale_to_integers(sol, lcm) == Ok([j \in DOMAIN sol |-> (sol[j][1] * lcm) \div sol[j][2]])

\* The vector read off the reduced rows: the free variables 1, the pivot
\* variables by back substitution, scaled to integers.
null_solution(sol) == scale_to_integers(sol, denominators_lcm(sol, Len(sol)))

null_free(A, piv, C, unpivoted) ==
  null_solution(back_substitute(A, piv, Len(A),
                                [j \in 1..C |->
                                   IF j \in (IF unpivoted = {} THEN {C} ELSE unpivoted)
                                   THEN <<1, 1>> ELSE <<0, 1>>]))

null_reduced(reduced, C) ==
  null_free(reduced[1], reduced[2], C,
            {j \in 1..C : \A i \in DOMAIN reduced[2] : reduced[2][i] # j})

\* The null vector both balancers compute from their rows of integers, or
\* Err of the IndexError of sol[-1] when there is no column.
NullVector(rows) ==
  LET R == Len(rows)
      C == IF R = 0 THEN 0 ELSE Len(rows[1])
  IN  IF C = 0 THEN Err("IndexError: list assignment index out of range")
      ELSE null_reduced(gauss_reduce([i \in 1..R |-> [j \in 1..C |-> <<rows[i][j], 1>>]],
                                     [i \in 1..R |-> 0], 1, 1), C)

\* balance_molecular(left, right): Ok of <<L, R>>, the species with their
\* coefficients replaced, or Err of the exception raised.
molecular_coefficients(left, right, ints) ==
  Ok(<<[i \in DOMAIN left |-> [left[i] EXCEPT !.coeff = ints[i]]],
       [i \in DOMAIN right |-> [right[i] EXCEPT !.coeff = ints[Len(left) + i]]]>>)

molecular_signed(left, right, null, sign) ==
  IF ~null.ok THEN null
  ELSE molecular_coefficients(left, right, [j \in DOMAIN null.st |-> sign * Abs(null.st[j])])

molecular_solved(left, right, null) ==
  molecular_signed(left, right, null,
                   IF \E j \in DOMAIN null.st : null.st[j] < 0 THEN -1 ELSE 1)

atom_count(atoms, el) == IF el \in DOMAIN atoms THEN atoms[el] ELSE 0

molecular_matrix(left, right, specs, els) ==
  molecular_solved(left, right,
    NullVector([e \in DOMAIN els |->
                  [i \in DOMAIN specs |->
                     IF i <= Len(left) THEN atom_count(specs[i].atoms, els[e])
                     ELSE -atom_count(specs[i].atoms, els[e])]]))

molecular_elements(left, right, specs) ==
  molecular_matrix(left, right, specs,
                   Sorted(UNION {DOMAIN specs[i].atoms : i \in DOMAIN specs}))

balance_molecular(left, right) == molecular_elements(left, right, left \o right)

\* _atoms_and_charge(label): Ok of [atoms, z], or Err of the exception raised.
label_atoms(cc, atoms) == IF atoms.ok THEN Ok([atoms |-> atoms.st, z |-> cc[2]]) ELSE atoms

label_charge(cc) == label_atoms(cc, _tokenize(_strip_phase_and_ws(cc[1])))

_atoms_and_charge(label) == label_charge(_read_charge(strip(label)))

\* _balance_net_ionic(netL, netR): Ok of <<outL, outR>>, or Err of the
\* exception raised.
net_coefficients(netL, netR, null) ==
  Ok(<<[i \in DOMAIN netL |-> <<netL[i][1], Abs(null.st[i])>>],
       [i \in DOMAIN netR |-> <<netR[i][1], Abs(null.st[Len(netL) + i])>>]>>)

net_side(netL, i, coef) == IF i <= Len(netL) THEN coef ELSE -coef

net_matrix(netL, netR, specs, elements) ==
  net_coefficients(netL, netR,
    NullVector([e \in DOMAIN elements |->
                  [i \in DOMAIN specs |->
                     net_side(netL, i, atom_count(specs[i].st.atoms, elements[e]))]]
                 \o <<[i \in DOMAIN specs |-> net_side(netL, i, specs[i].st.z)]>>))

net_parsed(netL, netR, specs, failed) ==
  IF failed # {} THEN specs[Min(failed)]
  ELSE IF specs = <<>> THEN Ok(<<netL, netR>>)
  ELSE net_matrix(netL, netR, specs,
                  Sorted(UNION {DOMAIN specs[i].st.atoms : i \in DOMAIN specs}))

net_species(netL, netR, specs) ==
  net_parsed(netL, netR, specs, {i \in DOMAIN specs : ~specs[i].ok})

net_labels(netL, netR, labels) ==
  net_species(netL, netR, [i \in DOMAIN labels |-> _atoms_and_charge(labels[i])])

_balance_net_ionic(netL, netR) ==
  net_labels(netL, netR, [i \in 1..(Len(netL) + Len(netR)) |->
                            IF i <= Len(netL) THEN netL[i][1] ELSE netR[i - Len(netL)][1]])
\* format_ionic(counts): the items with a count other than 0, joined by
\* " + "; an em dash when there is none.
format_ionic(counts) ==
  LET parts == SelectSeq(counts, LAMBDA it : it[2] # 0)
      Show(it) == (IF it[2] # 1
                   THEN (IF it[2] < 0 THEN <<"-">> ELSE <<>>) \o IntStr(Abs(it[2])) \o <<" ">>
                   ELSE <<>>) \o it[1]
      RECURSIVE Join(_)
      Join(k) == IF k = 1 THEN Show(parts[1]) ELSE Join(k - 1) \o <<" ", "+", " ">> \o Show(parts[k])
  IN  IF parts = <<>> THEN <<"U+2014">> ELSE Join(Len(parts))

\* What go has shown when nothing was computed: status is "Parse error" after
\* the message box, "exception" when an exception left go.
NothingShown(status) ==
  [status |-> status, heading |-> "", L |-> <<>>, R |-> <<>>, Lc |-> <<>>, Rc |-> <<>>,
   total |-> <<>>, spectators |-> {}, resL |-> <<>>, resR |-> <<>>,
   netL |-> <<>>, netR |-> <<>>, net |-> <<>>]

\* go of the net ionic tool, with the two entries and the two checkboxes:
\* what it writes to the output.  L and R are the species of the molecular
\* equation shown, total the line of the total ionic equation, spectators
\* the ions cancelled (a set: their order is that of a set of str), resL and
\* resR the dicts left after the cancellation, netL and netR the dicts
\* shown, net the line of the net-ionic equation ("NR" when both are empty).
\* The steps of go follow, last first.
ionic_line(l, r) == format_ionic(l) \o <<" ", " ", "U+2192", " ", " ">> \o format_ionic(r)

go_net(heading, L, R, Lc, Rc, spectators, resL, resR, netL, netR) ==
  [status |-> "shown", heading |-> heading, L |-> L, R |-> R, Lc |-> Lc, Rc |-> Rc,
   total |-> ionic_line(Lc, Rc),
   spectators |-> spectators, resL |-> resL, resR |-> resR,
   netL |-> netL, netR |-> netR,
   net |-> IF netL = <<>> /\ netR = <<>> THEN <<"N", "R">> ELSE ionic_line(netL, netR)]

go_scaled(heading, L, R, Lc, Rc, spectators, resL, resR, scaled) ==
  go_net(heading, L, R, Lc, Rc, spectators, resL, resR,
         IF scaled.ok THEN scaled.st[1] ELSE resL,
         IF scaled.ok THEN scaled.st[2] ELSE resR)

go_residue(heading, L, R, Lc, Rc, spectators, resL, resR) ==
  go_scaled(heading, L, R, Lc, Rc, spectators, resL, resR, _balance_net_ionic(resL, resR))

ion_count(c, ion) ==
  IF \E i \in DOMAIN c : c[i][1] = ion
  THEN c[CHOOSE i \in DOMAIN c : c[i][1] = ion][2] ELSE 0

\* m = min(nL, nR) of the loop over the ions
cancelled(Lc, Rc, ion) == Min({ion_count(Lc, ion), ion_count(Rc, ion)})

cancel(Lc, Rc, c) ==
  SelectSeq([i \in DOMAIN c |->
               IF cancelled(Lc, Rc, c[i][1]) > 0
               THEN <<c[i][1], c[i][2] - cancelled(Lc, Rc, c[i][1])>>
               ELSE c[i]],
            LAMBDA it : it[2] # 0)

go_counted(heading, L, R, Lc, Rc) ==
  go_residue(heading, L, R, Lc, Rc,
             {<<ion, cancelled(Lc, Rc, ion)>> :
                ion \in {x \in {Lc[i][1] : i \in DOMAIN Lc} : cancelled(Lc, Rc, x) > 0}},
             cancel(Lc, Rc, Lc), cancel(Lc, Rc, Rc))

go_ionic(heading, L, R, L_ionic, R_ionic) ==
  IF ~L_ionic.ok \/ ~R_ionic.ok THEN NothingShown("exception")
  ELSE go_counted(heading, L, R, count_ionic_side(L_ionic.st), count_ionic_side(R_ionic.st))

go_molecular(heading, L, R, already_ionic) ==
  go_ionic(heading, L, R, dissociate_side(L, already_ionic), dissociate_side(R, already_ionic))

go_balanced(L, R, do_balance, already_ionic, skip, bal) ==
  go_molecular(IF skip THEN "(Detected ionic species - skipping balancing.)"
               ELSE IF ~do_balance THEN "Molecular equation (as entered):"
               ELSE IF bal.ok THEN "Balanced molecular equation:"
               ELSE "(Balancing failed; proceeding as entered)",
               IF bal.ok THEN bal.st[1] ELSE L,
               IF bal.ok THEN bal.st[2] ELSE R,
               already_ionic)

go_entered(L, R, do_balance, already_ionic, skip) ==
  go_balanced(L, R, do_balance, already_ionic, skip,
              IF do_balance /\ ~skip THEN balance_molecular(L, R) ELSE Err(""))

go_parsed(Lp, Rp, do_balance, already_ionic) ==
  IF ~Lp.ok \/ ~Rp.ok THEN NothingShown("Parse error")
  ELSE go_entered(Lp.st, Rp.st, do_balance, already_ionic,
                  already_ionic \/ \E sp \in Range(Lp.st \o Rp.st) : sp.charge # 0)

go_split(sides, do_balance, already_ionic) ==
  go_parsed(parse_side_net_ionic(sides[1]), parse_side_net_ionic(sides[2]),
            do_balance, already_ionic)

go(eL, eR, do_balance, already_ionic) == go_split(go_sides(eL, eR), do_balance, already_ionic)
\* ------------------------------------------------------------------------
\* The parts of the state a specification leaves alone
\* ------------------------------------------------------------------------
IdleNormalize == nv_name = <<>> /\ nv_canon = <<>> /\ nv_again = <<>>

IdleMatcher ==
  /\ m_known = <<>> /\ m_min = 0 /\ m_matches = <<>> /\ m_eq = 0
  /\ m_target = <<>> /\ m_solved = <<>> /\ m_result = Zero

IdleConvert ==
  /\ cv_var = <<>> /\ cv_unit = <<>>
  /\ cv_value = Zero /\ cv_base = Zero /\ cv_back = Zero

IdleReaction ==
  /\ r_left = <<>> /\ r_right = <<>> /\ r_arrow = <<>> /\ r_text = <<>>
  /\ r_out = Err("") /\ r_parts = <<>>

IdleSpecies ==
  /\ sp_tokens = <<>> /\ sp_text = <<>> /\ sp_already = FALSE
  /\ sp_specs = Err("") /\ sp_ionic = Err("")

IdleNetIonic ==
  /\ ni_eL = <<>> /\ ni_eR = <<>> /\ ni_balance = FALSE /\ ni_already = FALSE
  /\ ni_out = NothingShown("")

IdleExtent ==
  /\ ex_stoich = <<>> /\ ex_C0 = <<>> /\ ex_K = <<0, 1>>
  /\ ex_a = <<0, 1>> /\ ex_b = <<0, 1>> /\ ex_round = 0 /\ ex_x = Err("") /\ ex_shift = ""

IdleKnown ==
  /\ known_base = <<>> /\ known_ui = <<>> /\ known_tree = <<>>
  /\ var_name = <<>> /\ var_value = <<>> /\ var_unit = <<>>
  /\ suggest_list = <<>> /\ suggest_shown = FALSE
  /\ kn_accepted = <<>> /\ kn_added = <<>>

IdleMain == IdleNormalize /\ IdleMatcher /\ IdleConvert /\ IdleReaction /\ IdleKnown

IdleTools == IdleSpecies /\ IdleNetIonic /\ IdleExtent

\* ------------------------------------------------------------------------
\* Alias resolution applied once and again to a typed name
\* ------------------------------------------------------------------------
\* The names typed: every key of the alias table, every canonical key as
\* written, and names that resolve by prefix, by closeness, or not at all.
NameInputs ==
  AliasKeys
  \cup {VARIABLES_TABLE[v].key : v \in DOMAIN VARIABLES_TABLE}
  \cup {<<"p","r","e","s">>, <<"t","e","m","p">>, <<"h","e","a">>, <<"m","a","s">>,
        <<"s","p","e","c">>, <<"v","o","l","u","m">>,
        <<"p","r","e","s","u","r","e">>, <<"m","a","s","s","s">>, <<"e","n","r","g","y">>,
        <<"d","e","n","s","t","y">>, <<"m","o","l","a","r","m","a","s">>,
        <<"z","z","z">>, <<"x","q">>, <<" ", " ">>, <<>>,
        <<" ", "M","a","s","s", " ">>, <<"M","A","S","S">>, <<"H","e","a","t">>}

InitNormalize ==
  /\ pc = "typed"
  /\ nv_name \in NameInputs
  /\ nv_canon = <<>>
  /\ nv_again = <<>>
  /\ IdleMatcher /\ IdleConvert /\ IdleReaction /\ IdleKnown /\ IdleTools

\* nv_canon = normalize_var(nv_name)
NormalizeVar ==
  /\ pc = "typed"
  /\ nv_canon' = normalize_var(nv_name)
  /\ pc' = "normalized"
  /\ UNCHANGED <<nv_name, nv_again, mVars, cvVars, rVars, knVars, toolVars>>

\* normalize_var applied to its own result
NormalizeAgain ==
  /\ pc = "normalized"
  /\ nv_again' = normalize_var(nv_canon)
  /\ pc' = "renormalized"
  /\ UNCHANGED <<nv_name, nv_canon, mVars, cvVars, rVars, knVars, toolVars>>

NextNormalize == NormalizeVar \/ NormalizeAgain

SpecNormalize == InitNormalize /\ [][NextNormalize]_vars

\* C1: normalize_var is idempotent: normalize_var(normalize_var(x)) = normalize_var(x)
\* for every name x, whichever way x resolves (alias, name, prefix, closeness).
C1_Idempotent == pc = "renormalized" => nv_again = nv_canon

\* ------------------------------------------------------------------------
\* The matcher applied to a dict of known values
\* ------------------------------------------------------------------------
\* The keys a known dict is drawn from, each with its value: the variables of
\* equations on heat, gases and equilibrium, two constants (c and R) that the
\* user overrides, and a key (zzz) of no equation.
KnownPool == <<
  [key |-> <<"m">>, value |-> Dec(25, -1)],
  [key |-> <<"c">>, value |-> Dec(4184, 0)],
  [key |-> <<"U+0394","T">>, value |-> Dec(30, 0)],
  [key |-> <<"n">>, value |-> Dec(4, 0)],
  [key |-> <<"R">>, value |-> Dec(5, 0)],
  [key |-> <<"T">>, value |-> Zero],
  [key |-> <<"K">>, value |-> Dec(12, 0)],
  [key |-> <<"U+0394","G","U+00B0","r","x","n">>, value |-> Dec(-8, 0)],
  [key |-> <<"z","z","z">>, value |-> Dec(11, 0)],
  [key |-> <<"Q">>, value |-> Dec(313800, 0)]
>>

KnownDict(S) == [k \in {KnownPool[i].key : i \in S} |->
                   KnownPool[CHOOSE i \in S : KnownPool[i].key = k].value]

KnownInputs ==
  {KnownDict(S) : S \in {T \in SUBSET (DOMAIN KnownPool) : Cardinality(T) <= MaxKnown}}

InitMatcher ==
  /\ pc = "known"
  /\ m_known \in KnownInputs
  /\ m_min = 0 /\ m_matches = <<>> /\ m_eq = 0
  /\ m_target = <<>> /\ m_solved = <<>> /\ m_result = Zero
  /\ IdleNormalize /\ IdleConvert /\ IdleReaction /\ IdleKnown /\ IdleTools

\* matches = find_applicable_equations(known, min_overlap)
FindApplicable ==
  /\ pc = "known"
  /\ \E min \in 0..MaxMinOverlap :
       /\ m_min' = min
       /\ m_matches' = find_applicable_equations(m_known, min)
  /\ pc' = "listed"
  /\ UNCHANGED <<m_known, m_eq, m_target, m_solved, m_result, nvVars, cvVars, rVars, knVars, toolVars>>

\* target = can_solve(eq, known), for any equation of the bank
CanSolve ==
  /\ pc = "known"
  /\ \E i \in DOMAIN EQUATIONS :
       /\ m_eq' = i
       /\ m_target' = can_solve(EQUATIONS[i], m_known)
  /\ pc' = "asked"
  /\ UNCHANGED <<m_known, m_min, m_matches, m_solved, m_result, nvVars, cvVars, rVars, knVars, toolVars>>

\* result = solve_for(eq, target, known), for any variable of the equation
SolveFor ==
  /\ pc = "asked"
  /\ \E t \in Range(EQUATIONS[m_eq].variables) :
       /\ m_solved' = t
       /\ m_result' = solve_for(EQUATIONS[m_eq], t, m_known)
  /\ pc' = "solved"
  /\ UNCHANGED <<m_known, m_min, m_matches, m_eq, m_target, nvVars, cvVars, rVars, knVars, toolVars>>

NextMatcher == FindApplicable \/ CanSolve \/ SolveFor

SpecMatcher == InitMatcher /\ [][NextMatcher]_vars


\* The index in the bank of the equation with a key.
EqIndex(key) == CHOOSE i \in DOMAIN EQUATIONS : EQUATIONS[i].key = key

\* The variables of an equation that neither the known dict nor CONSTANTS has.
Absent(eq, known) ==
  {v \in Range(eq.variables) : v \notin DOMAIN known /\ v \notin CONSTANTS_KEYS}

\* C2: can_solve(eq, known) returns the variable t if and only if t is the
\* only variable of eq absent from the keys of known and of CONSTANTS and eq
\* has a solver for t; in every other case it returns None.
C2_CanSolveIff ==
  pc \in {"asked", "solved"} =>
    LET eq == EQUATIONS[m_eq]
        absent == Absent(eq, m_known)
        single == {t \in Range(eq.variables) : absent = {t} /\ t \in Range(eq.solve)}
    IN  /\ \A t \in Range(eq.variables) : (m_target = <<t>>) <=> (t \in single)
        /\ (m_target = <<>>) <=> (single = {})
        /\ m_target = <<>> \/ (Len(m_target) = 1 /\ m_target[1] \in Range(eq.variables))

\* can_solve has returned a variable of an equation one of whose other
\* variables only CONSTANTS supplies.
C2_Witness ==
  /\ pc = "asked"
  /\ m_target # <<>>
  /\ \E v \in Range(EQUATIONS[m_eq].variables) : v \in CONSTANTS_KEYS \ DOMAIN m_known

\* A listed match is solvable: one variable missing, and a solver for it.
ListedSolvable(item) ==
  Len(item.missing) = 1 /\ item.missing[1] \in Range(item.eq.solve)

\* The total overlap of an equation with the known dict: the variables the
\* user knows plus the constants supplied for the others.
TotalOverlap(eq, known) ==
  Cardinality(Range(eq.variables) \cap DOMAIN known)
    + Cardinality((Range(eq.variables) \cap CONSTANTS_KEYS) \ DOMAIN known)

\* The list is ordered: solvable first, then overlap descending, then the
\* names ascending as NameLess compares them.
ListOrdered(NameLess(_, _)) ==
  \A i, j \in DOMAIN m_matches :
    i < j =>
      LET a == m_matches[i]
          b == m_matches[j]
          oa == TotalOverlap(a.eq, m_known)
          ob == TotalOverlap(b.eq, m_known)
      IN  \/ ListedSolvable(a) /\ ~ListedSolvable(b)
          \/ ListedSolvable(a) = ListedSolvable(b) /\ oa > ob
          \/ ListedSolvable(a) = ListedSolvable(b) /\ oa = ob /\ NameLess(a.eq.name, b.eq.name)

NameLessAsWritten(a, b) == StrLess(a, b)

NameLessLowered(a, b) == StrLess(lower(a), lower(b))

\* C3 as stated: the list of find_applicable_equations has every solvable
\* equation before every unsolvable one, equal solvability in descending order
\* of total overlap, and equal overlap in ascending order of display name.
C3_OrderedByDisplayName == pc = "listed" => ListOrdered(NameLessAsWritten)

\* C3 as the code has it: the list has every solvable equation before every
\* unsolvable one, equal solvability in descending order of total overlap, and
\* equal overlap in ascending order of the lower-cased display name.
C3_OrderedByLoweredName == pc = "listed" => ListOrdered(NameLessLowered)

\* The list has C (solvable, overlap 3), then A (solvable, overlap 2), then B
\* (unsolvable, overlap 3), in this order.
C3_Witness ==
  /\ pc = "listed"
  /\ \E i, j, k \in DOMAIN m_matches :
       /\ i < j /\ j < k
       /\ ListedSolvable(m_matches[i]) /\ TotalOverlap(m_matches[i].eq, m_known) = 3
       /\ ListedSolvable(m_matches[j]) /\ TotalOverlap(m_matches[j].eq, m_known) = 2
       /\ ~ListedSolvable(m_matches[k]) /\ TotalOverlap(m_matches[k].eq, m_known) = 3

\* C4: find_applicable_equations(known, min_overlap) returns an equation if
\* and only if |variables & known| + |(variables & CONSTANTS) \ known| is at
\* least min_overlap, once, and with it the equation's variables that are
\* neither in known nor in CONSTANTS, in the order of their declaration.
C4_QualifiesByOverlap ==
  pc = "listed" =>
    /\ \A i \in DOMAIN EQUATIONS :
         (\E j \in DOMAIN m_matches : m_matches[j].eq = EQUATIONS[i])
           <=> (TotalOverlap(EQUATIONS[i], m_known) >= m_min)
    /\ \A j, k \in DOMAIN m_matches : m_matches[j].eq = m_matches[k].eq => j = k
    /\ \A j \in DOMAIN m_matches :
         m_matches[j].missing =
           SelectSeq(m_matches[j].eq.variables,
                     LAMBDA v : v \notin DOMAIN m_known /\ v \notin CONSTANTS_KEYS)

\* With min_overlap 2 an equation is left out, and one is listed that the
\* user's keys alone would not qualify and whose missing list leaves out a
\* variable that CONSTANTS supplies.
C4_Witness ==
  /\ pc = "listed"
  /\ m_min = 2
  /\ Len(m_matches) < Len(EQUATIONS)
  /\ \E j \in DOMAIN m_matches :
       LET eq == m_matches[j].eq
       IN  /\ Cardinality(Range(eq.variables) \cap DOMAIN m_known) < m_min
           /\ \E v \in Range(eq.variables) :
                v \in CONSTANTS_KEYS \ DOMAIN m_known /\ v \notin Range(m_matches[j].missing)

\* The input the solver is to get: for each variable of eq the user's value
\* when there is one, otherwise the CONSTANTS value when there is one.
SolverInput(eq, values) ==
  [k \in {v \in Range(eq.variables) : v \in DOMAIN values \/ v \in CONSTANTS_KEYS} |->
     IF k \in DOMAIN values THEN values[k] ELSE CONSTANTS_VALUE(k)]

\* The user's values for the variables of eq alone.
OwnValues(eq, values) == [k \in DOMAIN values \cap Range(eq.variables) |-> values[k]]

\* C5: solve_for(eq, target, values) is the solver of target applied to: for
\* each variable of eq, the user's value when values has the key, otherwise
\* the CONSTANTS value when there is one; the keys of values that are not
\* variables of eq are not passed and do not change the result.
C5_SolverInput ==
  (pc = "solved" /\ m_solved \in Range(EQUATIONS[m_eq].solve)) =>
    LET eq == EQUATIONS[m_eq]
    IN  /\ m_result = Solver(eq.key, m_solved, SolverInput(eq, m_known))
        /\ m_result = solve_for(eq, m_solved, OwnValues(eq, m_known))

\* solve_for has returned a number from a known dict with a key of no
\* equation and the user's value for a constant of the equation.
C5_Witness ==
  /\ pc = "solved"
  /\ m_solved \in Range(EQUATIONS[m_eq].solve)
  /\ IsNum(m_result)
  /\ <<"z","z","z">> \in DOMAIN m_known
  /\ \E v \in Range(EQUATIONS[m_eq].variables) : v \in CONSTANTS_KEYS \cap DOMAIN m_known

\* known = {m: 2.5, ΔT: 30, c: 4184}
C6Known ==
  [k \in {<<"m">>, <<"U+0394","T">>, <<"c">>} |->
     IF k = <<"m">> THEN Dec(25, -1)
     ELSE IF k = <<"c">> THEN Dec(4184, 0)
     ELSE Dec(30, 0)]

\* C6: with known = {m: 2.5, ΔT: 30, c: 4184} the list has "Specific Heat
\* Capacity" among the solvable equations with Q missing, can_solve returns Q
\* for it, and solve_for(it, Q, known) returns 2.5*4184*30 = 313800.
C6_SpecificHeat ==
  m_known = C6Known =>
    /\ pc = "listed" =>
         \E j \in DOMAIN m_matches :
           /\ m_matches[j].eq.name = <<"S","p","e","c","i","f","i","c"," ","H","e","a","t"," ","C","a","p","a","c","i","t","y">>
           /\ m_matches[j].eq.key = "specific_heat"
           /\ m_matches[j].missing = << <<"Q">> >>
           /\ ListedSolvable(m_matches[j])
           /\ \A k \in DOMAIN m_matches : ~ListedSolvable(m_matches[k]) => j < k
    /\ (pc \in {"asked", "solved"} /\ m_eq = EqIndex("specific_heat")) =>
         m_target = << <<"Q">> >>
    /\ (pc = "solved" /\ m_eq = EqIndex("specific_heat") /\ m_solved = <<"Q">>) =>
         /\ m_result = Mul(Mul(Dec(25, -1), Dec(4184, 0)), Dec(30, 0))
         /\ m_result = Dec(313800, 0)

\* solve_for has returned 313800 for Q from known = {m: 2.5, ΔT: 30, c: 4184}.
C6_Witness ==
  /\ pc = "solved"
  /\ m_known = C6Known
  /\ m_eq = EqIndex("specific_heat")
  /\ m_solved = <<"Q">>
  /\ m_result = Dec(313800, 0)

\* ------------------------------------------------------------------------
\* A value converted to the base unit and back
\* ------------------------------------------------------------------------
\* The values entered: n/d * 10^e for small n, d in {1, 3} and e in -1..1.
ConvertValues ==
  {Norm(n, d, e, NoLit) : n \in (-MaxMantissa)..MaxMantissa, d \in {1, 3}, e \in (-1)..1}

\* The variables converted: every variable of the registry and a key of none.
ConvertVariables ==
  {VARIABLES_TABLE[v].key : v \in DOMAIN VARIABLES_TABLE} \cup {<<"z","z","z">>}

\* The units given for a variable: the units declared for it, no unit, and a
\* unit that is not declared.
ConvertUnits(canonical) == Range(units_for(canonical)) \cup {<<>>, <<"z","z">>}

InitConvert ==
  /\ pc = "value"
  /\ cv_var \in ConvertVariables
  /\ cv_unit \in ConvertUnits(cv_var)
  /\ cv_value \in ConvertValues
  /\ cv_base = Zero /\ cv_back = Zero
  /\ IdleNormalize /\ IdleMatcher /\ IdleReaction /\ IdleKnown /\ IdleTools

\* cv_base = convert_to_base(cv_var, cv_value, cv_unit)
ConvertToBase ==
  /\ pc = "value"
  /\ cv_base' = convert_to_base(cv_var, cv_value, cv_unit)
  /\ pc' = "based"
  /\ UNCHANGED <<cv_var, cv_unit, cv_value, cv_back, nvVars, mVars, rVars, knVars, toolVars>>

\* cv_back = convert_from_base(cv_var, cv_base, cv_unit)
ConvertFromBase ==
  /\ pc = "based"
  /\ cv_back' = convert_from_base(cv_var, cv_base, cv_unit)
  /\ pc' = "back"
  /\ UNCHANGED <<cv_var, cv_unit, cv_value, cv_base, nvVars, mVars, rVars, knVars, toolVars>>

NextConvert == ConvertToBase \/ ConvertFromBase

SpecConvert == InitConvert /\ [][NextConvert]_vars

\* C7: for every variable c of the registry, every unit u declared for c and
\* every value v, convert_from_base(c, convert_to_base(c, v, u), u) = v, the
\* offset unit °C of T included.
C7_RoundTrip ==
  (pc = "back" /\ cv_unit \in Range(units_for(cv_var))) => cv_back = cv_value

\* 30 °C has gone to 303.15 K and come back.
C7_Witness ==
  /\ pc = "back"
  /\ cv_var = <<"T">>
  /\ cv_unit = <<"U+00B0","C">>
  /\ cv_value = Dec(30, 0)
  /\ cv_base = Dec(30315, -2)
  /\ cv_back = cv_value

\* ------------------------------------------------------------------------
\* A reaction typed and parsed
\* ------------------------------------------------------------------------
\* The terms a side is made of: the coefficient as typed (<<>> when omitted),
\* its value, and the species.
TermPool == <<
  [coef |-> <<>>, value |-> Dec(1, 0), sp |-> <<"N","2">>],
  [coef |-> <<"3">>, value |-> Dec(3, 0), sp |-> <<"H","2">>],
  [coef |-> <<"2">>, value |-> Dec(2, 0), sp |-> <<"N","H","3">>],
  [coef |-> <<>>, value |-> Dec(1, 0), sp |-> <<"A","g","+">>],
  [coef |-> <<>>, value |-> Dec(1, 0), sp |-> <<"C","l","-">>],
  [coef |-> <<>>, value |-> Dec(1, 0), sp |-> <<"A","g","C","l">>]
>>

\* The side with the terms of S, in the order of the pool.
SideOf(S) ==
  LET idx == SelectSeq([i \in DOMAIN TermPool |-> i], LAMBDA i : i \in S)
  IN  [k \in DOMAIN idx |-> TermPool[idx[k]]]

SideInputs == {SideOf(S) : S \in {T \in SUBSET (DOMAIN TermPool) : Cardinality(T) <= MaxTerms}}

\* What is typed between the sides: "->", ⇌, →, "=", ↔, ⟷, "=>", or nothing.
ArrowInputs ==
  {ARROW, <<"U+21CC">>, <<"U+2192">>, <<"=">>, <<"U+2194">>, <<"U+27F7">>, <<"=", ">">>, <<>>}

\* Texts that are not two sides around an arrow.
RawTexts ==
  {<<"-", ">">>,
   <<"+"," ","-",">"," ","+">>,
   <<".","H","2"," ","-",">"," ","N","2">>,
   <<"0"," ","N","2"," ","-",">"," ","0"," ","H","2">>,
   <<"N","2"," ","+"," ","3","H","2"," ","U+21CC"," ","2","N","H","3">>}

RenderTerm(t) == IF t.coef = <<>> THEN t.sp ELSE t.coef \o <<" ">> \o t.sp

RECURSIVE RenderSide(_)
RenderSide(side) ==
  IF side = <<>> THEN <<>>
  ELSE IF Len(side) = 1 THEN RenderTerm(side[1])
  ELSE RenderTerm(side[1]) \o <<" ", "+", " ">> \o RenderSide(Tail(side))

RenderReaction(left, arrow, right) ==
  RenderSide(left) \o <<" ">> \o arrow \o <<" ">> \o RenderSide(right)

InitReaction ==
  /\ pc = "text"
  /\ \/ /\ r_left \in SideInputs
        /\ r_right \in SideInputs
        /\ r_arrow \in ArrowInputs
        /\ r_text = RenderReaction(r_left, r_arrow, r_right)
     \/ /\ r_left = <<>> /\ r_right = <<>> /\ r_arrow = <<>>
        /\ r_text \in RawTexts
  /\ r_out = Err("") /\ r_parts = <<>>
  /\ IdleNormalize /\ IdleMatcher /\ IdleConvert /\ IdleKnown /\ IdleTools

\* r_out = self._parse_reaction(r_text)
ParseReaction ==
  /\ pc = "text"
  /\ r_out' = _parse_reaction(r_text)
  /\ pc' = "parsed"
  /\ UNCHANGED <<r_left, r_right, r_arrow, r_text, r_parts, nvVars, mVars, cvVars, knVars, toolVars>>

\* go of the net ionic tool, the text typed in the left entry and the right
\* entry left empty: r_parts = the sides it goes on to parse
NetIonicSplit ==
  /\ pc = "text"
  /\ r_parts' = go_sides(r_text, <<>>)
  /\ pc' = "split"
  /\ UNCHANGED <<r_left, r_right, r_arrow, r_text, r_out, nvVars, mVars, cvVars, knVars, toolVars>>

NextReaction == ParseReaction \/ NetIonicSplit

SpecReaction == InitReaction /\ [][NextReaction]_vars

\* The text is two sides of terms around what r_arrow holds.
Structured == r_text = RenderReaction(r_left, r_arrow, r_right)

SpeciesOf(side) == {side[i].sp : i \in DOMAIN side}

CoefficientOf(side, sp) == side[CHOOSE i \in DOMAIN side : side[i].sp = sp].value

\* The map of a reaction: minus the coefficient of each reactant, the
\* coefficient of each product.
SignedMap(left, right) ==
  [sp \in SpeciesOf(left) \cup SpeciesOf(right) |->
     IF sp \in SpeciesOf(left) THEN Neg(CoefficientOf(left, sp)) ELSE CoefficientOf(right, sp)]

\* C8: _parse_reaction maps every reactant species to minus its coefficient and
\* every product species to its coefficient, an omitted coefficient counting
\* as 1, as "N2 + 3 H2 -> 2 NH3" to {N2: -1, H2: -3, NH3: 2}.
C8_SignedCoefficients ==
  (/\ pc = "parsed" /\ Structured /\ r_arrow = ARROW
   /\ r_left # <<>> /\ r_right # <<>>
   /\ SpeciesOf(r_left) \cap SpeciesOf(r_right) = {})
    => r_out = Ok(SignedMap(r_left, r_right))

\* The arrows the parser is to accept: "->", ⇌, → and "=".
ClaimedArrows == {ARROW, <<"U+21CC">>, <<"U+2192">>, <<"=">>}

\* C9: a reaction that parses with "->" parses with ⇌, → or "=" in its place
\* to the same map, and the net ionic tool splits it at any of these arrows
\* into its two sides.
C9_ArrowsAccepted ==
  /\ (/\ pc = "parsed" /\ Structured /\ r_arrow \in ClaimedArrows
      /\ _parse_reaction(RenderReaction(r_left, ARROW, r_right)).ok)
       => r_out = _parse_reaction(RenderReaction(r_left, ARROW, r_right))
  /\ (/\ pc = "split" /\ Structured /\ r_arrow \in ClaimedArrows
      /\ r_left # <<>> /\ r_right # <<>>)
       => r_parts = <<RenderSide(r_left), RenderSide(r_right)>>

\* The text has one of the arrows "->", ⇌, →, "=", ↔ or ⟷.
HasArrow(text) ==
  \E a \in {ARROW, <<"U+21CC">>, <<"U+2192">>, <<"=">>, <<"U+2194">>, <<"U+27F7">>} :
    Find(text, a, 1) > 0

\* C10: _parse_reaction raises, and returns no map, when the text has no
\* arrow and when the left or the right side has no species; the map it
\* returns never has all its coefficients of one sign.  (After "=>" the right
\* side is never without a species: the ">" left of "=>" is taken for one.)
C10_ParseErrors ==
  pc = "parsed" =>
    /\ ~HasArrow(r_text) => ~r_out.ok
    /\ (Structured /\ r_arrow # <<"=", ">">> /\ (r_left = <<>> \/ r_right = <<>>)) => ~r_out.ok
    /\ r_out.ok => /\ \E k \in DOMAIN r_out.st : r_out.st[k].n < 0
                   /\ \E k \in DOMAIN r_out.st : r_out.st[k].n > 0
    /\ ~r_out.ok => r_out.st = EmptyDict /\ r_out.error # ""

\* A reaction with reactants, the arrow "->" and no product has raised.
C10_Witness ==
  /\ pc = "parsed"
  /\ Structured
  /\ r_arrow = ARROW
  /\ r_left # <<>>
  /\ r_right = <<>>
  /\ r_out = Err("ValueError: Reaction needs reactants and products")

\* C11: a "+" or "-" that is the charge of a species does not split it: the
\* species of the map _parse_reaction returns are the species as typed, so
\* "Ag+" stays "Ag+".
C11_ChargeKept ==
  (pc = "parsed" /\ Structured /\ r_arrow = ARROW /\ r_out.ok)
    => DOMAIN r_out.st = SpeciesOf(r_left) \cup SpeciesOf(r_right)
\* ------------------------------------------------------------------------
\* A side of the net ionic tool parsed and dissociated
\* ------------------------------------------------------------------------
\* The formulas typed: what stands outside a parenthesized group, the group
\* and its multiplier (no group: <<>> and 0).  The strong acids and bases of
\* the two tables come first; the salts follow, CaNO3 among them, a
\* formula that is not that of a neutral compound.
FormulaPool ==
  {[outside |-> <<"H","C","l">>, group |-> <<>>, mult |-> 0],
   [outside |-> <<"H","B","r">>, group |-> <<>>, mult |-> 0],
   [outside |-> <<"H","I">>, group |-> <<>>, mult |-> 0],
   [outside |-> <<"H","N","O","3">>, group |-> <<>>, mult |-> 0],
   [outside |-> <<"H","C","l","O","3">>, group |-> <<>>, mult |-> 0],
   [outside |-> <<"H","C","l","O","4">>, group |-> <<>>, mult |-> 0],
   [outside |-> <<"H","2","S","O","4">>, group |-> <<>>, mult |-> 0],
   [outside |-> <<"L","i","O","H">>, group |-> <<>>, mult |-> 0],
   [outside |-> <<"N","a","O","H">>, group |-> <<>>, mult |-> 0],
   [outside |-> <<"K","O","H">>, group |-> <<>>, mult |-> 0],
   [outside |-> <<"R","b","O","H">>, group |-> <<>>, mult |-> 0],
   [outside |-> <<"C","s","O","H">>, group |-> <<>>, mult |-> 0],
   [outside |-> <<"B","a">>, group |-> <<"O","H">>, mult |-> 2],
   [outside |-> <<"S","r">>, group |-> <<"O","H">>, mult |-> 2],
   [outside |-> <<"C","a">>, group |-> <<"O","H">>, mult |-> 2],
   [outside |-> <<"N","a","C","l">>, group |-> <<>>, mult |-> 0],
   [outside |-> <<"A","g","N","O","3">>, group |-> <<>>, mult |-> 0],
   [outside |-> <<"P","t">>, group |-> <<"N","O","3">>, mult |-> 2],
   [outside |-> <<"F","e">>, group |-> <<"C","N">>, mult |-> 6],
   [outside |-> <<"A","l","2">>, group |-> <<"S","O","4">>, mult |-> 3],
   [outside |-> <<"N","a","2","S","O","4">>, group |-> <<>>, mult |-> 0],
   [outside |-> <<"C","a">>, group |-> <<"N","O","3">>, mult |-> 2],
   [outside |-> <<"C","a","N","O","3">>, group |-> <<>>, mult |-> 0],
   [outside |-> <<"A","g">>, group |-> <<>>, mult |-> 0],
   [outside |-> <<"P","t">>, group |-> <<>>, mult |-> 0],
   [outside |-> <<"F","e">>, group |-> <<>>, mult |-> 0],
   [outside |-> <<"C","l">>, group |-> <<>>, mult |-> 0],
   [outside |-> <<"S","O","4">>, group |-> <<>>, mult |-> 0],
   [outside |-> <<"N","O","3">>, group |-> <<>>, mult |-> 0],
   [outside |-> <<"H","2","O">>, group |-> <<>>, mult |-> 0]}

\* The charges typed after a formula, with their values.
ChargePool ==
  {[text |-> <<>>, z |-> 0],
   [text |-> <<"+">>, z |-> 1],
   [text |-> <<"^", "2", "+">>, z |-> 2],
   [text |-> <<"^", "3", "+">>, z |-> 3],
   [text |-> <<"-">>, z |-> -1],
   [text |-> <<"^", "2", "-">>, z |-> -2]}

\* The phase tags typed: none, (aq), (s), (l), (g).
PhasePool == {<<>>, <<"a", "q">>, <<"s">>, <<"l">>, <<"g">>}

\* The coefficients typed: none (0), 2, 3.
CoefPool == {0, 2, 3}

\* The species typed.
TokenPool ==
  {[formula |-> f, charge |-> c, phase |-> p, coef |-> k] :
     f \in FormulaPool, c \in ChargePool, p \in PhasePool, k \in CoefPool}

\* The sides of more than one species.

SidePool ==
  {<<[formula |-> [outside |-> <<"A","g">>, group |-> <<>>, mult |-> 0], charge |-> [text |-> <<>>, z |-> 0], phase |-> <<"s">>, coef |-> 0],
     [formula |-> [outside |-> <<"P","t">>, group |-> <<"N","O","3">>, mult |-> 2], charge |-> [text |-> <<>>, z |-> 0], phase |-> <<"a","q">>, coef |-> 0]>>,
   <<[formula |-> [outside |-> <<"A","g","N","O","3">>, group |-> <<>>, mult |-> 0], charge |-> [text |-> <<>>, z |-> 0], phase |-> <<"a","q">>, coef |-> 0],
     [formula |-> [outside |-> <<"P","t">>, group |-> <<>>, mult |-> 0], charge |-> [text |-> <<>>, z |-> 0], phase |-> <<"s">>, coef |-> 0]>>,
   <<[formula |-> [outside |-> <<"A","g">>, group |-> <<>>, mult |-> 0], charge |-> [text |-> <<"+">>, z |-> 1], phase |-> <<>>, coef |-> 0],
     [formula |-> [outside |-> <<"C","l">>, group |-> <<>>, mult |-> 0], charge |-> [text |-> <<"-">>, z |-> -1], phase |-> <<>>, coef |-> 0]>>,
   <<[formula |-> [outside |-> <<"F","e">>, group |-> <<>>, mult |-> 0], charge |-> [text |-> <<"^","3","+">>, z |-> 3], phase |-> <<"a","q">>, coef |-> 2],
     [formula |-> [outside |-> <<"S","O","4">>, group |-> <<>>, mult |-> 0], charge |-> [text |-> <<"^","2","-">>, z |-> -2], phase |-> <<"a","q">>, coef |-> 3]>>,
   <<[formula |-> [outside |-> <<"H","C","l">>, group |-> <<>>, mult |-> 0], charge |-> [text |-> <<>>, z |-> 0], phase |-> <<"a","q">>, coef |-> 2],
     [formula |-> [outside |-> <<"B","a">>, group |-> <<"O","H">>, mult |-> 2], charge |-> [text |-> <<>>, z |-> 0], phase |-> <<"a","q">>, coef |-> 0]>>,
   <<[formula |-> [outside |-> <<"N","a","C","l">>, group |-> <<>>, mult |-> 0], charge |-> [text |-> <<>>, z |-> 0], phase |-> <<"a","q">>, coef |-> 0],
     [formula |-> [outside |-> <<"H","C","l">>, group |-> <<>>, mult |-> 0], charge |-> [text |-> <<>>, z |-> 0], phase |-> <<"a","q">>, coef |-> 0],
     [formula |-> [outside |-> <<"N","a","O","H">>, group |-> <<>>, mult |-> 0], charge |-> [text |-> <<>>, z |-> 0], phase |-> <<"a","q">>, coef |-> 0]>>}
\* The formula of a species as typed.
FormulaText(f) ==
  f.outside \o (IF f.group = <<>> THEN <<>> ELSE <<"(">> \o f.group \o <<")">> \o IntStr(f.mult))

\* A species as typed: the coefficient, the formula, the charge, the phase.
TokenText(t) ==
  (IF t.coef = 0 THEN <<>> ELSE IntStr(t.coef) \o <<" ">>)
    \o FormulaText(t.formula) \o t.charge.text
    \o (IF t.phase = <<>> THEN <<>> ELSE <<"(">> \o t.phase \o <<")">>)

\* The species of a side joined by " + ".
RECURSIVE SideText(_)
SideText(tokens) ==
  IF tokens = <<>> THEN <<>>
  ELSE IF Len(tokens) = 1 THEN TokenText(tokens[1])
  ELSE TokenText(tokens[1]) \o <<" ", "+", " ">> \o SideText(Tail(tokens))

InitSpecies ==
  /\ pc = "side"
  /\ sp_tokens \in {<<t>> : t \in TokenPool} \cup SidePool
  /\ sp_text = SideText(sp_tokens)
  /\ sp_already \in BOOLEAN
  /\ sp_specs = Err("") /\ sp_ionic = Err("")
  /\ IdleMain /\ IdleNetIonic /\ IdleExtent

\* sp_specs = parse_side(sp_text)
ParseSide ==
  /\ pc = "side"
  /\ sp_specs' = parse_side_net_ionic(sp_text)
  /\ pc' = "specs"
  /\ UNCHANGED <<sp_tokens, sp_text, sp_already, sp_ionic, mainVars, niVars, exVars>>

\* sp_ionic = dissociate_side(sp_specs)
DissociateSide ==
  /\ pc = "specs"
  /\ sp_specs.ok
  /\ sp_ionic' = dissociate_side(sp_specs.st, sp_already)
  /\ pc' = "ionic"
  /\ UNCHANGED <<sp_tokens, sp_text, sp_already, sp_specs, mainVars, niVars, exVars>>

NextSpecies == ParseSide \/ DissociateSide

SpecSpecies == InitSpecies /\ [][NextSpecies]_vars

\* The only species of the side typed.
OneSpecies == sp_tokens[1]

\* The coefficient of a species typed, 1 when omitted.
CoefficientTyped(t) == IF t.coef = 0 THEN 1 ELSE t.coef

\* The charge of the species is typed so that it cannot be taken for a part
\* of the formula: with "^", or after a letter.
ChargeClear(t) ==
  \/ t.charge.z = 0
  \/ t.charge.text[1] = "^"
  \/ ~IsDigit(FormulaText(t.formula)[Len(FormulaText(t.formula))])

\* The atoms of a formula with a group: those of the group times its
\* multiplier, added to those outside it.
GroupAtoms(f) ==
  LET out == _tokenize(f.outside).st
      grp == _tokenize(f.group).st
  IN  [E \in DOMAIN out \cup DOMAIN grp |->
         (IF E \in DOMAIN out THEN out[E] ELSE 0) + (IF E \in DOMAIN grp THEN f.mult * grp[E] ELSE 0)]

\* C12: the atoms parse_species_token counts for a formula with a
\* parenthesized group and a multiplier are those of the group times the
\* multiplier added to those outside the group, as Fe(CN)6 gives
\* {Fe: 1, C: 6, N: 6} and Ca(OH)2 gives {Ca: 1, O: 2, H: 2}.
C12_GroupAtoms ==
  (/\ pc = "specs" /\ Len(sp_tokens) = 1
   /\ OneSpecies.formula.group # <<>> /\ ChargeClear(OneSpecies))
    => /\ sp_specs.ok
       /\ Len(sp_specs.st) = 1
       /\ sp_specs.st[1].atoms = GroupAtoms(OneSpecies.formula)

\* The ions tabulated for a strong acid or base, <<>> for another formula.
TabulatedIons(formula) ==
  LET tables == STRONG_ACIDS \o STRONG_BASES
      rows == {i \in DOMAIN tables : tables[i].formula = formula}
  IN  IF rows = {} THEN <<>> ELSE tables[CHOOSE i \in rows : TRUE].ions

\* The count of an ion in a list of (label, count).
IonCount(ionic, ion) ==
  LET RECURSIVE Total(_)
      Total(k) == IF k = 0 THEN 0
                  ELSE Total(k - 1) + (IF ionic[k][1] = ion THEN ionic[k][2] ELSE 0)
  IN  Total(Len(ionic))

\* C13: a strong acid or base of the two tables, typed with (aq) and no
\* charge, is dissociated into its tabulated ions, each as many times as it
\* is tabulated, times the coefficient of the species.
C13_StrongElectrolytes ==
  (/\ pc = "ionic" /\ ~sp_already /\ Len(sp_tokens) = 1
   /\ TabulatedIons(FormulaText(OneSpecies.formula)) # <<>>
   /\ OneSpecies.charge.z = 0 /\ OneSpecies.phase = <<"a", "q">>)
    => LET ions == TabulatedIons(FormulaText(OneSpecies.formula))
       IN  /\ sp_ionic.ok
           /\ {sp_ionic.st[i][1] : i \in DOMAIN sp_ionic.st} = Range(ions)
           /\ \A ion \in Range(ions) :
                IonCount(sp_ionic.st, ion)
                  = CoefficientTyped(OneSpecies) * Cardinality({j \in DOMAIN ions : ions[j] = ion})

\* The labels that carry the charge z of the formula: the magnitude, when it
\* is more than 1, and the sign, with or without "^".
ChargedLabels(formula, z) ==
  LET sign == IF z > 0 THEN <<"+">> ELSE <<"-">>
      mag == IF Abs(z) > 1 THEN IntStr(Abs(z)) ELSE <<>>
  IN  {formula \o mag \o sign, formula \o <<"^">> \o mag \o sign}

\* C14: a species typed with a charge other than 0 and with no phase tag or
\* (aq) is one ion of the total ionic side: its label carries the charge, its
\* count is the coefficient of the species.
C14_ExplicitCharge ==
  (/\ pc = "ionic" /\ Len(sp_tokens) = 1
   /\ OneSpecies.charge.z # 0 /\ ChargeClear(OneSpecies)
   /\ OneSpecies.phase \in {<<>>, <<"a", "q">>})
    => /\ sp_ionic.ok
       /\ Len(sp_ionic.st) = 1
       /\ sp_ionic.st[1][1] \in ChargedLabels(FormulaText(OneSpecies.formula), OneSpecies.charge.z)
       /\ sp_ionic.st[1][2] = CoefficientTyped(OneSpecies)

\* C15: NaCl(aq) is dissociated into [("Na+", 1), ("Cl-", 1)].
C15_SodiumChloride ==
  (pc = "ionic" /\ ~sp_already /\ sp_text = <<"N", "a", "C", "l", "(", "a", "q", ")">>)
    => sp_ionic = Ok(<<<<<<"N", "a", "+">>, 1>>, <<<<"C", "l", "-">>, 1>>>>)

\* ------------------------------------------------------------------------
\* The net ionic tool: the two entries, the two checkboxes, the button
\* ------------------------------------------------------------------------
\* The species typed into the entries; the first four are those of the
\* entries as the tool opens.
EntryPool ==
  <<<<"A","g","(","s",")">>,
    <<"P","t","(","N","O","3",")","2","(","a","q",")">>,
    <<"A","g","N","O","3","(","a","q",")">>,
    <<"P","t","(","s",")">>,
    <<"A","g","+","(","a","q",")">>,
    <<"C","l","-","(","a","q",")">>>>

\* The species of a set of positions of EntryPool, joined by " + ".
RECURSIVE EntryOf(_)
EntryOf(P) ==
  IF P = {} THEN <<>>
  ELSE IF Cardinality(P) = 1 THEN EntryPool[Min(P)]
  ELSE EntryPool[Min(P)] \o <<" ", "+", " ">> \o EntryOf(P \ {Min(P)})

EntryInputs == {EntryOf(P) : P \in {Q \in SUBSET DOMAIN EntryPool : Cardinality(Q) <= MaxSpecies}}

\* The entries as the tool opens.
PrefilledLeft == EntryOf({1, 2})

PrefilledRight == EntryOf({3, 4})

\* The neutralization NaOH(aq) + HCl(aq) -> NaCl(aq) + H2O(l), typed into
\* the two entries.
NeutralizationLeft ==
  <<"N","a","O","H","(","a","q",")"," ","+"," ","H","C","l","(","a","q",")">>

NeutralizationRight ==
  <<"N","a","C","l","(","a","q",")"," ","+"," ","H","2","O","(","l",")">>

InitNetIonic ==
  /\ pc = "entries"
  /\ \/ ni_eL \in EntryInputs /\ ni_eR \in EntryInputs
     \/ ni_eL = NeutralizationLeft /\ ni_eR = NeutralizationRight
  /\ ni_balance \in BOOLEAN
  /\ ni_already \in BOOLEAN
  /\ ni_out = NothingShown("")
  /\ IdleMain /\ IdleSpecies /\ IdleExtent

\* The button "Compute net-ionic".
Go ==
  /\ pc = "entries"
  /\ ni_out' = go(ni_eL, ni_eR, ni_balance, ni_already)
  /\ pc' = "shown"
  /\ UNCHANGED <<ni_eL, ni_eR, ni_balance, ni_already, mainVars, spVars, exVars>>

NextNetIonic == Go

SpecNetIonic == InitNetIonic /\ [][NextNetIonic]_vars

\* The tool has shown its lines for the entries it opens with, the
\* checkboxes as it opens with them.
PrefilledShown ==
  /\ pc = "shown"
  /\ ni_eL = PrefilledLeft /\ ni_eR = PrefilledRight
  /\ ni_balance /\ ~ni_already

\* C16: for "Ag(s) + Pt(NO3)2(aq)" and "AgNO3(aq) + Pt(s)" with the
\* checkboxes as the tool opens with them, NO3- is the only spectator
\* cancelled and the net-ionic equation shown is
\* 2 Ag(s) + Pt^2+ -> 2 Ag+ + Pt(s).
C16_PrefilledExample ==
  PrefilledShown
    => /\ ni_out.status = "shown"
       /\ {sp[1] : sp \in ni_out.spectators} = {<<"N","O","3","-">>}
       /\ ni_out.netL = <<<<<<"A","g","(","s",")">>, 2>>, <<<<"P","t","^","2","+">>, 1>>>>
       /\ ni_out.netR = <<<<<<"A","g","+">>, 2>>, <<<<"P","t","(","s",")">>, 1>>>>
       /\ ni_out.net = <<"2"," ","A","g","(","s",")"," ","+"," ","P","t","^","2","+">> \o <<" ", " ", "U+2192", " ", " ">> \o <<"2"," ","A","g","+"," ","+"," ","P","t","(","s",")">>

C16_Witness == PrefilledShown /\ ni_out.status = "shown" /\ ni_out.spectators # {}

\* The sum over the species of a side of their coefficient times q(species).
WeightedSum(side, specs, q(_)) ==
  LET RECURSIVE Total(_)
      Total(k) == IF k = 0 THEN 0 ELSE Total(k - 1) + side[k][2] * q(specs[k].st)
  IN  Total(Len(side))

\* The coefficients of the two sides are positive and balance the atoms of
\* every element and the charge, the labels read by _atoms_and_charge.
Balances(outL, outR) ==
  LET sL == [i \in DOMAIN outL |-> _atoms_and_charge(outL[i][1])]
      sR == [i \in DOMAIN outR |-> _atoms_and_charge(outR[i][1])]
      elements == UNION {DOMAIN sp.st.atoms : sp \in Range(sL) \cup Range(sR)}
  IN  /\ \A it \in Range(outL) \cup Range(outR) : it[2] > 0
      /\ \A el \in elements :
           WeightedSum(outL, sL, LAMBDA sp : atom_count(sp.atoms, el))
             = WeightedSum(outR, sR, LAMBDA sp : atom_count(sp.atoms, el))
      /\ WeightedSum(outL, sL, LAMBDA sp : sp.z) = WeightedSum(outR, sR, LAMBDA sp : sp.z)

\* What _balance_net_ionic makes of the residue shown.
Rebalanced == _balance_net_ionic(ni_out.resL, ni_out.resR)

\* C17: the coefficients _balance_net_ionic returns for a residue that is
\* not empty are positive integers that balance every element and the
\* charge.
C17_NetBalanced ==
  (/\ pc = "shown" /\ ni_out.status = "shown"
   /\ ni_out.resL \o ni_out.resR # <<>>
   /\ Rebalanced.ok)
    => Balances(Rebalanced.st[1], Rebalanced.st[2])

\* The residue cannot be balanced: _balance_net_ionic raises, or the system
\* of the atoms and the charge has the zero vector only, which the
\* elimination returns then.
Unbalanceable ==
  \/ ~Rebalanced.ok
  \/ \A it \in Range(Rebalanced.st[1]) \cup Range(Rebalanced.st[2]) : it[2] = 0

\* C18: a residue that cannot be balanced is shown with the counts left
\* after the cancellation.
C18_UnscaledResidue ==
  (/\ pc = "shown" /\ ni_out.status = "shown"
   /\ ni_out.resL \o ni_out.resR # <<>>
   /\ Unbalanceable)
    => /\ ni_out.netL = ni_out.resL
       /\ ni_out.netR = ni_out.resR
       /\ ni_out.net = ionic_line(ni_out.resL, ni_out.resR)
\* ------------------------------------------------------------------------
\* gui.py: _solve_extent_for_K.  The floats are Fractions <<n, d>>; stoich
\* and C0 are the lists of the values of the two dicts in the order of the
\* species; None is <<>>.
\* ------------------------------------------------------------------------
\* x * y of two Fractions, the common factors cancelled before the products
FrMul(x, y) ==
  LET g1 == Gcd(Abs(x[1]), y[2])
      g2 == Gcd(Abs(y[1]), x[2])
  IN  <<(x[1] \div g1) * (y[1] \div g2), (x[2] \div g2) * (y[2] \div g1)>>

\* 1 / y of a Fraction other than 0
FrInverse(y) == IF y[1] < 0 THEN <<-y[2], -y[1]>> ELSE <<y[2], y[1]>>

\* x - y of two Fractions
FrSub(x, y) == Fraction(x[1] * y[2] - y[1] * x[2], x[2] * y[2])

\* x < y of two Fractions, by their integer parts and then the inverses of
\* what is left, so that no product is formed
RECURSIVE FrLess(_, _)
FrLess(x, y) ==
  LET fx == x[1] \div x[2]
      fy == y[1] \div y[2]
      rx == x[1] % x[2]
      ry == y[1] % y[2]
  IN  IF fx # fy THEN fx < fy
      ELSE IF ry = 0 THEN FALSE
      ELSE IF rx = 0 THEN TRUE
      ELSE FrLess(<<y[2], ry>>, <<x[2], rx>>)

FrAbs(x) == <<Abs(x[1]), x[2]>>

\* The sign of a Fraction: -1, 0 or 1
FrSign(x) == IF x[1] < 0 THEN -1 ELSE IF x[1] = 0 THEN 0 ELSE 1

\* c**nu of a Fraction c > 0 and an integer nu >= 0
RECURSIVE FrPow(_, _)
FrPow(c, nu) == IF nu = 0 THEN <<1, 1>> ELSE FrMul(c, FrPow(c, nu - 1))

\* The admissible interval <<lo, hi>>: lo the largest -C0[sp]/nu of the
\* species with nu > 0, hi the smallest of those with nu < 0.  A stoich from
\* _parse_reaction has a species of either sign, so that neither bound is
\* left at -1e30 or 1e30.
FrMaxOf(S) == CHOOSE x \in S : \A y \in S : ~FrLess(x, y)

FrMinOf(S) == CHOOSE x \in S : \A y \in S : ~FrLess(y, x)

extent_interval(stoich, C0) ==
  <<FrMaxOf({FrMul(<<-1, 1>>, FrMul(C0[i], <<1, stoich[i]>>)) :
               i \in {j \in DOMAIN stoich : stoich[j] > 0}}),
    FrMinOf({FrMul(C0[i], <<1, -stoich[i]>>) :
               i \in {j \in DOMAIN stoich : stoich[j] < 0}})>>

\* The concentrations at the extent x: C0[sp] + nu * x
concentrations(stoich, C0, x) ==
  [i \in DOMAIN stoich |-> fraction_add(C0[i], FrMul(<<stoich[i], 1>>, x))]

\* Q_of(x): None when a concentration is not positive, of whatever species;
\* else num/den.
RECURSIVE q_product(_, _, _, _)
q_product(stoich, c, i, positive) ==
  IF i = 0 THEN <<1, 1>>
  ELSE IF (positive /\ stoich[i] > 0) \/ (~positive /\ stoich[i] < 0)
  THEN FrMul(q_product(stoich, c, i - 1, positive), FrPow(c[i], Abs(stoich[i])))
  ELSE q_product(stoich, c, i - 1, positive)

\* The mutant of q_of_concentrations: only the species that react are
\* looked at.
q_of_concentrations_reacting(stoich, c) ==
  IF \E i \in DOMAIN c : stoich[i] # 0 /\ c[i][1] <= 0 THEN <<>>
  ELSE FrMul(q_product(stoich, c, Len(c), TRUE), FrInverse(q_product(stoich, c, Len(c), FALSE)))

q_of_concentrations(stoich, c) ==
  IF \E i \in DOMAIN c : c[i][1] <= 0 THEN <<>>
  ELSE FrMul(q_product(stoich, c, Len(c), TRUE), FrInverse(q_product(stoich, c, Len(c), FALSE)))

Q_of(stoich, C0, x) == q_of_concentrations(stoich, concentrations(stoich, C0, x))

\* f(x): None if Q_of(x) is None, else Q_of(x) - K
f_of_q(q, K) == IF q = <<>> THEN <<>> ELSE FrSub(q, K)

f(stoich, C0, K, x) == f_of_q(Q_of(stoich, C0, x), K)

\* xs[i] = lo + (hi-lo)*i/N, for i in range(N+1)
grid_point(lo, hi, i) == fraction_add(lo, FrMul(FrSub(hi, lo), Fraction(i, N)))

\* The coarse scan: the first i of range(N) whose two values are not None
\* and have a zero or a change of sign, and what the loop does there.
\* xs and vals are indexed from 1.
scan_at(xs, vals, hits) ==
  IF hits = {} THEN [kind |-> "none"]
  ELSE IF vals[Min(hits)][1] = 0 THEN [kind |-> "return", x |-> xs[Min(hits)]]
  ELSE IF vals[Min(hits) + 1][1] = 0 THEN [kind |-> "return", x |-> xs[Min(hits) + 1]]
  ELSE [kind |-> "bracket", a |-> xs[Min(hits)], b |-> xs[Min(hits) + 1]]

scan(xs, vals) ==
  scan_at(xs, vals,
          {i \in 1..N : /\ vals[i] # <<>> /\ vals[i + 1] # <<>>
                        /\ \/ vals[i][1] = 0
                           \/ vals[i + 1][1] = 0
                           \/ FrSign(vals[i]) * FrSign(vals[i + 1]) < 0})

\* The fallback: the first x of xs with the least |f|, None (0) when every
\* value is None.  The loop replaces best only by a value strictly less, so
\* that of the best positions of the two halves of a range the left one
\* stays unless the right one is strictly less.
fallback_pick(vals, left, right) ==
  IF right = 0 THEN left
  ELSE IF left = 0 THEN right
  ELSE IF FrLess(FrAbs(vals[right]), FrAbs(vals[left])) THEN right
  ELSE left

RECURSIVE fallback_best(_, _, _)
fallback_best(vals, from, to) ==
  IF from = to THEN (IF vals[from] = <<>> THEN 0 ELSE from)
  ELSE fallback_pick(vals, fallback_best(vals, from, (from + to) \div 2),
                     fallback_best(vals, ((from + to) \div 2) + 1, to))

\* _solve_extent_for_K(stoich, C0, K) up to its bisection: what it returns
\* or raises, or the bracket it bisects.  Its steps, last first: the
\* fallback, the scan, the values of f on the grid, the grid, the interval.
extent_fallback(xs, bestx) ==
  IF bestx = 0
  THEN [kind |-> "raise", error |-> "ValueError: Failed to evaluate Q over feasible x (check inputs)."]
  ELSE [kind |-> "return", x |-> xs[bestx]]

extent_scanned(xs, vals, found) ==
  IF found.kind = "none" THEN extent_fallback(xs, fallback_best(vals, 1, Len(vals)))
  ELSE found

extent_values(xs, vals) == extent_scanned(xs, vals, scan(xs, vals))

extent_grid(stoich, C0, K, xs) ==
  extent_values(xs, [i \in DOMAIN xs |-> f(stoich, C0, K, xs[i])])

extent_feasible(stoich, C0, K, interval) ==
  IF ~FrLess(interval[1], interval[2])
  THEN [kind |-> "raise", error |-> "ValueError: No feasible extent (check initials)."]
  ELSE extent_grid(stoich, C0, K,
                   [i \in 1..(N + 1) |-> grid_point(interval[1], interval[2], i - 1)])

_solve_extent_for_K(stoich, C0, K) == extent_feasible(stoich, C0, K, extent_interval(stoich, C0))

\* m = 0.5*(a+b)
midpoint(a, b) == FrMul(<<1, 2>>, fraction_add(a, b))

\* One round of the bisection, with fm = f(m) and fa = f(a): "break" when fm
\* is None, "return" when abs(fm) < 1e-12, else the next a and b.  A value
\* of f other than 0 is at least 1e-12 from 0 as long as the rounds are few:
\* its denominator is far less than 1e12.
bisect_values(a, b, m, fm, fa) ==
  IF fm = <<>> THEN [kind |-> "break"]
  ELSE IF fm[1] = 0 THEN [kind |-> "return", x |-> m]
  ELSE IF FrSign(fa) * FrSign(fm) <= 0 THEN [kind |-> "bracket", a |-> a, b |-> m]
  ELSE [kind |-> "bracket", a |-> m, b |-> b]

bisect_at(stoich, C0, K, a, b, m) ==
  bisect_values(a, b, m, f(stoich, C0, K, m), f(stoich, C0, K, a))

bisect(stoich, C0, K, a, b) == bisect_at(stoich, C0, K, a, b, midpoint(a, b))

\* compute of the ICE tool: Q_from(C0), None when an initial concentration
\* is not positive, and the shift reported with the extent, the arrow before
\* "products" and "reactants" left out.
Q_from(stoich, C) == q_of_concentrations(stoich, C)

direction(Q0, K) ==
  IF Q0 # <<>> /\ FrLess(Q0, K) THEN "products"
  ELSE IF Q0 # <<>> /\ FrLess(K, Q0) THEN "reactants"
  ELSE "already at K"

\* ------------------------------------------------------------------------
\* compute of the ICE tool with a K entered: _solve_extent_for_K called,
\* its bisection round by round, and the shift reported with the extent
\* ------------------------------------------------------------------------
\* The stoichiometries: a reactant, a product, and a third species that is
\* a reactant, a product, or both (nu = 0, as N2 in "N2 + H2 -> N2 + NH3").
StoichInputs == {<<-1, 1, nu>> : nu \in {-1, 0, 1}}

\* The initial concentrations typed, "0.00" the entry as the table is built.
ConcentrationInputs == {<<-1, 1>>, <<0, 1>>, <<1, 1>>, <<2, 1>>}

\* The values of K typed.  With K = 1 the extent of A -> B is a point of the
\* grid, with K = 15 the middle of a step of it, with K = 2 neither.
KInputs == {<<-1, 1>>, <<0, 1>>, <<1, 2>>, <<1, 1>>, <<2, 1>>, <<15, 1>>}

InitExtent ==
  /\ pc = "call"
  /\ ex_stoich \in StoichInputs
  /\ ex_C0 \in [1..3 -> ConcentrationInputs]
  /\ ex_K \in KInputs
  /\ ex_a = <<0, 1>> /\ ex_b = <<0, 1>> /\ ex_round = 0 /\ ex_x = Err("")
  /\ ex_shift = ""
  /\ IdleMain /\ IdleSpecies /\ IdleNetIonic

\* What compute reports once the extent is returned: the direction, from
\* the quotient of the initial concentrations.
Shift == direction(Q_from(ex_stoich, ex_C0), ex_K)

\* The call up to the bisection: the interval, the scan, the fallback.
SolveExtent ==
  /\ pc = "call"
  /\ \E out \in {_solve_extent_for_K(ex_stoich, ex_C0, ex_K)} :
       \/ /\ out.kind = "raise"
          /\ ex_x' = Err(out.error) /\ pc' = "raised"
          /\ UNCHANGED <<ex_a, ex_b, ex_shift>>
       \/ /\ out.kind = "return"
          /\ ex_x' = Ok(out.x) /\ pc' = "returned"
          /\ ex_shift' = Shift
          /\ UNCHANGED <<ex_a, ex_b>>
       \/ /\ out.kind = "bracket"
          /\ ex_a' = out.a /\ ex_b' = out.b /\ pc' = "bisect"
          /\ UNCHANGED <<ex_x, ex_shift>>
  /\ UNCHANGED <<ex_stoich, ex_C0, ex_K, ex_round, mainVars, spVars, niVars>>

\* One round of "for _ in range(100)", of which the model takes
\* BisectionRounds.
Bisect ==
  /\ pc = "bisect"
  /\ ex_round < BisectionRounds
  /\ \E out \in {bisect(ex_stoich, ex_C0, ex_K, ex_a, ex_b)} :
       \/ /\ out.kind = "break"
          /\ ex_x' = Ok(midpoint(ex_a, ex_b)) /\ pc' = "returned"
          /\ ex_shift' = Shift
          /\ UNCHANGED <<ex_a, ex_b, ex_round>>
       \/ /\ out.kind = "return"
          /\ ex_x' = Ok(out.x) /\ pc' = "returned"
          /\ ex_shift' = Shift
          /\ UNCHANGED <<ex_a, ex_b, ex_round>>
       \/ /\ out.kind = "bracket"
          /\ ex_a' = out.a /\ ex_b' = out.b /\ ex_round' = ex_round + 1
          /\ UNCHANGED <<ex_x, ex_shift, pc>>
  /\ UNCHANGED <<ex_stoich, ex_C0, ex_K, mainVars, spVars, niVars>>

\* The rounds are over: return 0.5*(a+b)
EndBisection ==
  /\ pc = "bisect"
  /\ ex_round = BisectionRounds
  /\ ex_x' = Ok(midpoint(ex_a, ex_b))
  /\ ex_shift' = Shift
  /\ pc' = "returned"
  /\ UNCHANGED <<ex_stoich, ex_C0, ex_K, ex_a, ex_b, ex_round, mainVars, spVars, niVars>>

NextExtent == SolveExtent \/ Bisect \/ EndBisection

SpecExtent == InitExtent /\ [][NextExtent]_vars

\* lo and hi of the call
Lo == extent_interval(ex_stoich, ex_C0)[1]

Hi == extent_interval(ex_stoich, ex_C0)[2]

\* C19: _solve_extent_for_K raises if and only if lo >= hi; it returns an
\* extent whenever lo < hi.
C19_RaisesIffInfeasible ==
  /\ pc = "raised" => ~FrLess(Lo, Hi)
  /\ pc \in {"returned", "bisect"} => FrLess(Lo, Hi)

\* C20: an extent returned lies in [lo, hi], and no concentration
\* C0[sp] + nu*x is negative at it.
C20_ExtentFeasible ==
  pc = "returned"
    => /\ ex_x.ok
       /\ ~FrLess(ex_x.st, Lo) /\ ~FrLess(Hi, ex_x.st)
       /\ \A i \in DOMAIN ex_stoich :
            concentrations(ex_stoich, ex_C0, ex_x.st)[i][1] >= 0

\* An extent strictly inside the interval is returned after the last round
\* of the bisection.
C20_Witness ==
  /\ pc = "returned" /\ ex_round = BisectionRounds
  /\ ex_x.ok /\ FrLess(Lo, ex_x.st) /\ FrLess(ex_x.st, Hi)

\* The other ways an extent is returned: at once from the scan or the
\* fallback, and from a round of the bisection whose f(m) is 0.
ReturnedAtOnce == pc = "returned" /\ ex_a = <<0, 1>> /\ ex_b = <<0, 1>>

ReturnedFromRound ==
  /\ pc = "returned" /\ ex_round < BisectionRounds /\ ex_a # ex_b
  /\ f(ex_stoich, ex_C0, ex_K, ex_x.st) = <<0, 1>>

\* The error of the fallback is raised on a feasible interval.
RaisedFeasible == pc = "raised" /\ FrLess(Lo, Hi)

\* The labels of the total ionic equation shown.
TotalLabels == {it[1] : it \in Range(ni_out.Lc) \cup Range(ni_out.Rc)}

\* C21: after the cancellation no label has a count other than 0 on both
\* sides; the spectators are the labels with min(nL, nR) > 0, each with that
\* minimum; a label with nL > nR keeps nL - nR on the left only, one with
\* nR > nL keeps nR - nL on the right only, one with nL = nR is on neither.
C21_SpectatorsCancelled ==
  (pc = "shown" /\ ni_out.status = "shown")
    => /\ \A ion \in TotalLabels :
            /\ ion_count(ni_out.resL, ion) = 0 \/ ion_count(ni_out.resR, ion) = 0
            /\ ion_count(ni_out.resL, ion) - ion_count(ni_out.resR, ion)
                 = ion_count(ni_out.Lc, ion) - ion_count(ni_out.Rc, ion)
            /\ ion_count(ni_out.resL, ion) >= 0 /\ ion_count(ni_out.resR, ion) >= 0
       /\ ni_out.spectators
            = {<<ion, Min({ion_count(ni_out.Lc, ion), ion_count(ni_out.Rc, ion)})>> :
                 ion \in {x \in TotalLabels :
                            ion_count(ni_out.Lc, x) > 0 /\ ion_count(ni_out.Rc, x) > 0}}
       /\ {it[1] : it \in Range(ni_out.resL) \cup Range(ni_out.resR)} \subseteq TotalLabels

\* The charge a label written by as_ion_str (or tabulated) carries: its sign
\* is its last character, its magnitude the digits between "^" and the sign,
\* 1 when there are none.
LabelCharge(label) ==
  LET n == Len(label)
      carets == {i \in 1..n : label[i] = "^"}
      mag == IF carets = {} \/ Max(carets) + 1 = n THEN 1
             ELSE DigitsValue(SubSeq(label, Max(carets) + 1, n - 1))
  IN  IF label[n] = "+" THEN mag ELSE -mag

\* The labels of the anions of POLY as the salt rule writes them.
SaltAnions == {as_ion_str(POLY[k].an, POLY[k].z) : k \in DOMAIN POLY}

\* One species was typed, neutral and with (aq), and the salt rule has split
\* it: it is in neither table, and its second ion is an anion of POLY.
SaltSplit ==
  /\ pc = "ionic" /\ ~sp_already /\ Len(sp_tokens) = 1
  /\ OneSpecies.charge.z = 0 /\ OneSpecies.phase = <<"a", "q">>
  /\ TabulatedIons(FormulaText(OneSpecies.formula)) = <<>>
  /\ sp_ionic.ok /\ Len(sp_ionic.st) = 2
  /\ sp_ionic.st[2][1] \in SaltAnions

\* C22: the ions the salt rule emits for a neutral species are neutral in
\* total: n_c * z_cat + count_an * z_an = 0, with n_c at least 1.
C22_SaltNeutral ==
  SaltSplit
    => /\ sp_ionic.st[1][2] >= 1
       /\ sp_ionic.st[1][2] * LabelCharge(sp_ionic.st[1][1])
            + sp_ionic.st[2][2] * LabelCharge(sp_ionic.st[2][1]) = 0

\* The quotient of the initial concentrations, a product over no species
\* being 1 and a quotient with a zero in the denominator being undefined
\* (<<>>).  It is computed here from the definition, not by Q_from.
InitialQuotient ==
  LET RECURSIVE Prod(_, _)
      Prod(i, positive) ==
        IF i = 0 THEN <<1, 1>>
        ELSE IF (positive /\ ex_stoich[i] > 0) \/ (~positive /\ ex_stoich[i] < 0)
        THEN FrMul(Prod(i - 1, positive), FrPow(ex_C0[i], Abs(ex_stoich[i])))
        ELSE Prod(i - 1, positive)
      den == Prod(Len(ex_stoich), FALSE)
  IN  IF den[1] = 0 THEN <<>> ELSE FrMul(Prod(Len(ex_stoich), TRUE), FrInverse(den))

\* C23: the shift the ICE tool reports with the extent is "products"
\* exactly when Q0 < K, "reactants" exactly when Q0 > K, and "already at K"
\* only when Q0 = K, Q0 the quotient of the initial concentrations.
C23_ShiftByInitialQuotient ==
  pc = "returned"
    => /\ ex_shift = "products" <=> (InitialQuotient # <<>> /\ FrLess(InitialQuotient, ex_K))
       /\ ex_shift = "reactants" <=> (InitialQuotient # <<>> /\ FrLess(ex_K, InitialQuotient))
       /\ ex_shift = "already at K" => InitialQuotient = ex_K

\* A label is that of an ion: it ends with its sign.
IsIonLabel(label) == label # <<>> /\ label[Len(label)] \in {"+", "-"}

\* The formula of the label of an ion: the label without its sign, and
\* without "^" and the magnitude before the sign.
LabelFormula(label) ==
  LET n == Len(label)
      carets == {i \in 1..n : label[i] = "^"}
  IN  IF carets = {} THEN SubSeq(label, 1, n - 1) ELSE SubSeq(label, 1, Max(carets) - 1)

\* Two labels are of the same ion: the same formula and the same charge.
SameIon(a, b) ==
  /\ IsIonLabel(a) /\ IsIonLabel(b)
  /\ LabelFormula(a) = LabelFormula(b)
  /\ LabelCharge(a) = LabelCharge(b)

\* C24: an ion has the same label whichever rule has produced it: two
\* labels of the total ionic equation that are of the same ion are equal, so
\* that an ion on both sides is cancelled, as Na+ in
\* NaOH(aq) + HCl(aq) -> NaCl(aq) + H2O(l).
C24_OneLabelPerIon ==
  (pc = "shown" /\ ni_out.status = "shown")
    => /\ \A a, b \in TotalLabels : SameIon(a, b) => a = b
       /\ (ni_eL = NeutralizationLeft /\ ni_eR = NeutralizationRight)
            => \E sp \in ni_out.spectators : SameIon(sp[1], <<"N", "a", "+">>)

\* C25: the label as_ion_str has written for an ion is read back by
\* _atoms_and_charge as the atoms of the formula and the charge of the ion.
C25_LabelRoundTrip ==
  (pc = "ionic" /\ sp_ionic.ok /\ Len(sp_tokens) = 1
   /\ TabulatedIons(FormulaText(OneSpecies.formula)) = <<>>)
    => \A i \in DOMAIN sp_ionic.st :
         IsIonLabel(sp_ionic.st[i][1])
           => /\ _tokenize(LabelFormula(sp_ionic.st[i][1])).ok
              /\ _atoms_and_charge(sp_ionic.st[i][1])
                   = Ok([atoms |-> _tokenize(LabelFormula(sp_ionic.st[i][1])).st,
                         z |-> LabelCharge(sp_ionic.st[i][1])])

\* C26: every solver of the bank is reached through can_solve: when known
\* has a value for every variable of the equation but the target t of one
\* of its solvers, and none for t, can_solve returns t.
C26_SolversReachable ==
  pc = "asked"
    => \A t \in Range(EQUATIONS[m_eq].solve) :
         (/\ Range(EQUATIONS[m_eq].variables) \ {t} \subseteq DOMAIN m_known
          /\ t \notin DOMAIN m_known)
           => m_target = <<t>>

\* One species was typed, neutral and with (aq), and try_dissociate has
\* split it: every label of the side is that of an ion.
Dissociated ==
  /\ pc = "ionic" /\ ~sp_already /\ Len(sp_tokens) = 1
  /\ OneSpecies.charge.z = 0 /\ OneSpecies.phase = <<"a", "q">>
  /\ sp_ionic.ok /\ sp_ionic.st # <<>>
  /\ \A i \in DOMAIN sp_ionic.st : IsIonLabel(sp_ionic.st[i][1])

\* The atoms of an element in the ions of a list of (label, count).
IonAtoms(ionic, el) ==
  LET RECURSIVE Total(_)
      Total(k) ==
        IF k = 0 THEN 0
        ELSE Total(k - 1)
               + ionic[k][2] * atom_count(_tokenize(LabelFormula(ionic[k][1])).st, el)
  IN  Total(Len(ionic))

\* C27: the ions try_dissociate emits for a species have, of every element,
\* the atoms of the formula of the species, times its coefficient.
C27_AtomsConserved ==
  Dissociated
    => /\ \A i \in DOMAIN sp_ionic.st : _tokenize(LabelFormula(sp_ionic.st[i][1])).ok
       /\ \A el \in DOMAIN GroupAtoms(OneSpecies.formula)
                      \cup UNION {DOMAIN _tokenize(LabelFormula(sp_ionic.st[i][1])).st :
                                    i \in DOMAIN sp_ionic.st} :
            IonAtoms(sp_ionic.st, el)
              = CoefficientTyped(OneSpecies) * atom_count(GroupAtoms(OneSpecies.formula), el)

\* The atoms of an element on a side of the molecular equation shown, each
\* species counted with its coefficient.
SideAtoms(side, el) ==
  LET RECURSIVE Total(_)
      Total(k) == IF k = 0 THEN 0
                  ELSE Total(k - 1) + side[k].coeff * atom_count(side[k].atoms, el)
  IN  Total(Len(side))

\* C28: when balance_molecular has returned, every coefficient of the
\* molecular equation shown is a positive integer, and every element has as
\* many atoms on the left as on the right.
C28_MolecularBalanced ==
  (/\ pc = "shown" /\ ni_out.status = "shown"
   /\ ni_out.heading = "Balanced molecular equation:")
    => /\ \A sp \in Range(ni_out.L) \cup Range(ni_out.R) : sp.coeff > 0
       /\ \A el \in UNION {DOMAIN sp.atoms : sp \in Range(ni_out.L) \cup Range(ni_out.R)} :
            SideAtoms(ni_out.L, el) = SideAtoms(ni_out.R, el)
\* ------------------------------------------------------------------------
\* aliases.py: suggestions, the list under the variable entry
\* ------------------------------------------------------------------------
\* The canonical keys of VARIABLES.
RegistryKeys == {VARIABLES_TABLE[v].key : v \in DOMAIN VARIABLES_TABLE}

IndexOfKey(canonical) == CHOOSE v \in DOMAIN VARIABLES_TABLE : VARIABLES_TABLE[v].key = canonical

\* f"{canon} — {VARIABLES[canon]['name']}", the dash being U+2014
LabelSeparator == <<" ", "U+2014", " ">>

label_of(canonical) == canonical \o LabelSeparator \o VARIABLES_TABLE[IndexOfKey(canonical)].name

\* suggestions of an empty query: base = ["p", "V", "n", "T", "R", "m", "c",
\* "ΔT", "ρ", "c_m"], the keys of it that are in VARIABLES
BaseSuggestions ==
  SelectSeq(<<<<"p">>, <<"V">>, <<"n">>, <<"T">>, <<"R">>, <<"m">>, <<"c">>,
              <<"U+0394", "T">>, <<"U+03C1">>, <<"c", "_", "m">>>>,
            LAMBDA c : c \in RegistryKeys)

\* name.startswith(q) or any(a.startswith(q) for a in aliases), lower-cased
StartsWithQuery(v, q) ==
  \/ startswith(lower(VARIABLES_TABLE[v].name), q)
  \/ \E a \in DOMAIN VARIABLES_TABLE[v].aliases : startswith(lower(VARIABLES_TABLE[v].aliases[a]), q)

\* q in name or any(q in a for a in aliases), lower-cased
ContainsQuery(v, q) ==
  \/ Find(lower(VARIABLES_TABLE[v].name), q, 1) # 0
  \/ \E a \in DOMAIN VARIABLES_TABLE[v].aliases : Find(lower(VARIABLES_TABLE[v].aliases[a]), q, 1) # 0

\* The indices of a set of variables in the order of VARIABLES.
RECURSIVE InOrder(_)
InOrder(S) == IF S = {} THEN <<>> ELSE <<Min(S)>> \o InOrder(S \ {Min(S)})

starts_of(q) == InOrder({v \in DOMAIN VARIABLES_TABLE : StartsWithQuery(v, q)})

contains_of(q) ==
  InOrder({v \in DOMAIN VARIABLES_TABLE : ~StartsWithQuery(v, q) /\ ContainsQuery(v, q)})

\* How often a token is in search_space: once for each of the key, the name
\* and the aliases of a variable that is the token when lower-cased.
TokensOf(v, tok) ==
  Cardinality({a \in DOMAIN VARIABLES_TABLE[v].aliases : lower(VARIABLES_TABLE[v].aliases[a]) = tok})
  + (IF lower(VARIABLES_TABLE[v].name) = tok THEN 1 ELSE 0)
  + (IF lower(VARIABLES_TABLE[v].key) = tok THEN 1 ELSE 0)

RECURSIVE TokenCountUpTo(_, _)
TokenCountUpTo(v, tok) == IF v = 0 THEN 0 ELSE TokenCountUpTo(v - 1, tok) + TokensOf(v, tok)

TokenCount(tok) == TokenCountUpTo(Len(VARIABLES_TABLE), tok)

\* The tokens x of search_space with ratio(x, word) >= cutoff.
CloseTokens(word) ==
  {x \in AliasKeys :
     /\ RealQuickRatioOk(x, word)
     /\ CutoffDen * 2 * MatchedChars(x, word) >= CutoffNum * (Len(x) + Len(word))}

\* difflib.get_close_matches(q, search_space, n=limit, cutoff=0.75): the n
\* largest (ratio, x) of the list, largest first.  A token that is in the
\* list several times takes as many of the n places, so a token is in the
\* result when the tokens before it take fewer than n.
Largest(close, word) == CHOOSE c \in close : \A y \in close \ {c} : RatioGreater(c, y, word)

RECURSIVE LargestFirst(_, _)
LargestThen(close, word, x) == <<x>> \o LargestFirst(close \ {x}, word)

LargestFirst(close, word) ==
  IF close = {} THEN <<>> ELSE LargestThen(close, word, Largest(close, word))

RECURSIVE TakePlaces(_, _)
TakePlaces(ranked, places) ==
  IF ranked = <<>> \/ places <= 0 THEN <<>>
  ELSE <<Head(ranked)>> \o TakePlaces(Tail(ranked), places - TokenCount(Head(ranked)))

close_matches(word, n) == TakePlaces(LargestFirst(CloseTokens(word), word), n)

\* for b in best: c = canon_for_token[b]; skipped when seen
RECURSIVE fuzzy_of(_, _)
fuzzy_add(best, seen, c) ==
  IF c \in seen THEN fuzzy_of(Tail(best), seen)
  ELSE <<c>> \o fuzzy_of(Tail(best), seen \cup {c})

fuzzy_of(best, seen) ==
  IF best = <<>> THEN <<>> ELSE fuzzy_add(best, seen, _ALIAS_TO_CANON(Head(best)))

KeysOf(indices) == [i \in DOMAIN indices |-> VARIABLES_TABLE[indices[i]].key]

\* result[:limit]
truncated(result, limit) == SubSeq(result, 1, IF Len(result) < limit THEN Len(result) ELSE limit)

\* The keys of starts, contains and fuzzy; fuzzy is looked for when starts
\* and contains together are fewer than limit.
suggested_keys(found, q, limit) ==
  IF Len(found) < limit
  THEN truncated(found \o fuzzy_of(close_matches(q, limit), Range(found)), limit)
  ELSE truncated(found, limit)

labels_of(keys) == [i \in DOMAIN keys |-> label_of(keys[i])]

suggestions_for(q, limit) ==
  IF q = <<>> THEN labels_of(truncated(BaseSuggestions, limit))
  ELSE labels_of(suggested_keys(KeysOf(starts_of(q)) \o KeysOf(contains_of(q)), q, limit))

\* suggestions(query, limit): the labels of the pairs (canon, label)
suggestions(query, limit) == suggestions_for(lower(strip(query)), limit)

\* ------------------------------------------------------------------------
\* gui.py: ChemGUI, the known values of the main window.  A dict is a
\* function of its keys; the empty dict and the empty str are <<>>.
\* ------------------------------------------------------------------------
\* base_unit(canonical), <<>> for None
base_unit(canonical) ==
  IF canonical \in RegistryKeys THEN VARIABLES_TABLE[IndexOfKey(canonical)].base ELSE <<>>

\* default = base if base in choices else choices[0]
default_unit(choices, base) == IF base \in Range(choices) THEN base ELSE choices[1]

\* What the unit box shows for the choices of a variable, having shown unit.
unit_shown(choices, base, unit) ==
  IF choices = <<>> THEN <<>>
  ELSE IF unit = <<>> \/ unit \notin Range(choices) THEN default_unit(choices, base)
  ELSE unit

\* _update_units_for_current_entry: the text of the unit box after it, for
\* the text of the variable entry, canon = normalize_var(text) and the unit
\* the box shows
units_for_entry(text, canon, unit) ==
  IF strip(text) = <<>> THEN <<>> ELSE unit_shown(units_for(canon), base_unit(canon), unit)

\* label.split(" — ", 1)[0].strip()
canon_of_label(label) == strip(split1(label, LabelSeparator)[1])

\* float(val_str) of the value entry, for a text of digits with at most one
\* point; any other text of the texts typed here raises ValueError.
float_of_entry(val_str) ==
  IF /\ \A i \in DOMAIN val_str : IsDigit(val_str[i]) \/ val_str[i] = "."
     /\ Cardinality({i \in DOMAIN val_str : val_str[i] = "."}) <= 1
  THEN FloatOf(val_str)
  ELSE PyError("ValueError")

\* self.known_base[canon] = base_val
add_known_base(base, canon, base_val) == (canon :> base_val) @@ base

\* The mutant of add_known_ui: no record of the value as entered is kept.
add_known_ui_no_record(ui, canon, unit, display_val) == ui

\* self.known_ui[canon] = {"unit": unit or "", "display_value": display_val}
add_known_ui(ui, canon, unit, display_val) ==
  (canon :> [unit |-> unit, display_value |-> display_val]) @@ ui

\* d.pop(var, None) for every var of the rows selected
popped(d, selected) == [k \in DOMAIN d \ selected |-> d[k]]

\* _refresh_known_table: a row for each k of sorted(self.known_base.keys())
refreshed_rows(base) == Sorted(DOMAIN base)

\* The key the ICE tool stores the equilibrium value of a species under.
ice_key(sp, kind) ==
  IF kind = "Kc" THEN <<"[">> \o sp \o <<"]", "_", "e", "q">>
  ELSE <<"P", "_">> \o sp \o <<"_", "e", "q">>

ice_unit(kind) == IF kind = "Kc" THEN <<"M">> ELSE <<"a", "t", "m">>

\* ------------------------------------------------------------------------
\* The known values of the main window: typing a name, accepting a
\* suggestion, Add / Update, Delete Selected, Clear All, and the tools that
\* add their result to the known values
\* ------------------------------------------------------------------------
\* The rows the table of the known values may have.
MaxRows == 2

\* The texts typed into the variable entry.
TypedNames ==
  {<<>>, <<"m","a","s","s">>, <<"z","z","z">>, <<" ","T","e","m","p"," ">>,
   <<"p","r","e","s","u","r","e">>}

\* The texts typed into the value entry.
TypedValues == {<<"2", ",", "5">>, <<"a", "b", "c">>}

\* suggestions(text, limit=7) and normalize_var(text) of the texts the
\* variable entry can hold, each computed once.  The handlers below take
\* them as normalized and suggested.
SuggestionsOf == [text \in TypedNames |-> suggestions(text, 7)]

EntryNames == {strip(text) : text \in TypedNames} \cup RegistryKeys

NormalizedOf == [text \in EntryNames |-> normalize_var(text)]

\* What a tool has computed: the amount n and the molar mass of the mol
\* converter, the equilibrium values of the ICE tool.
ToolValues == {Dec(5, -1)}

IceSpecies == {<<"N", "2">>, <<"H", "2">>}

InitKnown ==
  /\ pc = "main"
  /\ known_base = <<>> /\ known_ui = <<>> /\ known_tree = <<>>
  /\ var_name = <<>> /\ var_value = <<>> /\ var_unit = <<>>
  /\ suggest_list = <<>> /\ suggest_shown = TRUE
  /\ kn_accepted = <<>> /\ kn_added = <<>>
  /\ IdleNormalize /\ IdleMatcher /\ IdleConvert /\ IdleReaction /\ IdleTools

OtherVars == <<pc, nvVars, mVars, cvVars, rVars, toolVars>>

\* _on_var_type: a key released in the variable entry, which then holds text
OnVarType(normalized, suggested) ==
  \E text \in TypedNames :
    /\ var_name' = text
    /\ suggest_list' = suggested[text]
    /\ suggest_shown' = (suggested[text] # <<>>)
    /\ var_unit' = units_for_entry(text, normalized[strip(text)], var_unit)
    /\ kn_accepted' = <<>>
    /\ kn_added' = <<>>
    /\ UNCHANGED <<known_base, known_ui, known_tree, var_value, OtherVars>>

\* _accept_suggestion: a double click on row i of the list shown
AcceptSuggestion(normalized) ==
  \E i \in DOMAIN suggest_list :
    /\ suggest_shown
    /\ var_name' = canon_of_label(suggest_list[i])
    /\ var_unit' = units_for_entry(var_name', normalized[strip(var_name')], var_unit)
    /\ suggest_shown' = FALSE
    /\ kn_accepted' = var_name'
    /\ kn_added' = <<>>
    /\ UNCHANGED <<known_base, known_ui, known_tree, var_value, suggest_list, OtherVars>>

\* _accept_from_entry: Return in the variable entry
AcceptFromEntry(normalized) ==
  /\ strip(var_name) # <<>>
  /\ var_name' = normalized[strip(var_name)]
  /\ var_unit' = units_for_entry(var_name', normalized[strip(var_name')], var_unit)
  /\ suggest_shown' = FALSE
  /\ kn_accepted' = <<>>
  /\ kn_added' = <<>>
  /\ UNCHANGED <<known_base, known_ui, known_tree, var_value, suggest_list, OtherVars>>

\* A value typed into the value entry.
TypeValue ==
  \E text \in TypedValues :
    /\ var_value' = text
    /\ kn_added' = <<>>
    /\ UNCHANGED <<known_base, known_ui, known_tree, var_name, var_unit,
                   suggest_list, suggest_shown, kn_accepted, OtherVars>>

\* _on_add_known past its two early returns, canon = normalize_var(name) and
\* display_val = float(val_str)
AddKnown(canon, display_val) ==
  /\ Cardinality(DOMAIN known_base \cup {canon}) <= MaxRows
  /\ known_base' = add_known_base(known_base, canon, convert_to_base(canon, display_val, strip(var_unit)))
  /\ known_ui' = add_known_ui(known_ui, canon, strip(var_unit), display_val)
  /\ known_tree' = refreshed_rows(known_base')
  /\ kn_added' = IF kn_accepted = <<>> THEN <<>> ELSE <<kn_accepted, display_val>>
  /\ var_name' = <<>> /\ var_value' = <<>> /\ var_unit' = <<>>

\* _on_add_known: the button Add / Update
OnAddKnown(normalized) ==
  /\ strip(var_name) # <<>>
  /\ float_of_entry(replace(strip(var_value), <<",">>, <<".">>)) # PyError("ValueError")
  /\ AddKnown(normalized[strip(var_name)], float_of_entry(replace(strip(var_value), <<",">>, <<".">>)))
  /\ kn_accepted' = <<>>
  /\ UNCHANGED <<suggest_list, suggest_shown, OtherVars>>

\* _on_clear_all, the question answered with yes
OnClearAll ==
  /\ known_base' = <<>> /\ known_ui' = <<>>
  /\ known_tree' = refreshed_rows(known_base')
  /\ suggest_shown' = FALSE
  /\ kn_added' = <<>>
  /\ UNCHANGED <<var_name, var_value, var_unit, suggest_list, kn_accepted, OtherVars>>

\* _on_delete_selected with the rows sel of the table selected
OnDeleteSelected ==
  \E sel \in SUBSET (DOMAIN known_tree) \ {{}} :
    /\ known_base' = popped(known_base, {known_tree[i] : i \in sel})
    /\ known_ui' = popped(known_ui, {known_tree[i] : i \in sel})
    /\ known_tree' = refreshed_rows(known_base')
    /\ kn_added' = <<>>
    /\ UNCHANGED <<var_name, var_value, var_unit, suggest_list, suggest_shown, kn_accepted, OtherVars>>

\* _open_mol_converter.add_to_known, compute() having returned n and mm
MolAddToKnown ==
  \E mode \in {"m2n", "n2m"}, n \in ToolValues, mm \in ToolValues :
    /\ IF mode = "m2n"
       THEN /\ Cardinality(DOMAIN known_base \cup {<<"n">>}) <= MaxRows
            /\ known_base' = add_known_base(known_base, <<"n">>, n)
            /\ known_ui' = add_known_ui(known_ui, <<"n">>, <<"m", "o", "l">>, n)
       ELSE /\ Cardinality(DOMAIN known_base \cup {<<"m">>}) <= MaxRows
            /\ known_base' = add_known_base(known_base, <<"m">>, Div(Mul(n, mm), Dec(1, 3)))
            /\ known_ui' = add_known_ui(known_ui, <<"m">>, <<"k", "g">>, Div(Mul(n, mm), Dec(1, 3)))
    /\ known_tree' = refreshed_rows(known_base')
    /\ kn_added' = <<>>
    /\ UNCHANGED <<var_name, var_value, var_unit, suggest_list, suggest_shown, kn_accepted, OtherVars>>

\* for sp, val in Ceq.items(): the two dicts after the species of todo
RECURSIVE ice_added(_, _, _, _)
ice_added(dicts, todo, kind, val) ==
  IF todo = <<>> THEN dicts
  ELSE ice_added(<<add_known_base(dicts[1], ice_key(Head(todo), kind), val),
                   add_known_ui(dicts[2], ice_key(Head(todo), kind), ice_unit(kind), val)>>,
                 Tail(todo), kind, val)

\* _open_equilibrium_ice_tool.add_known for the equilibrium values Ceq
IceAddKnown ==
  \E species \in SUBSET IceSpecies \ {{}}, kind \in {"Kc", "Kp"}, val \in ToolValues :
    /\ Cardinality(DOMAIN known_base \cup {ice_key(sp, kind) : sp \in species}) <= MaxRows
    /\ known_base' = ice_added(<<known_base, known_ui>>, Sorted(species), kind, val)[1]
    /\ known_ui' = ice_added(<<known_base, known_ui>>, Sorted(species), kind, val)[2]
    /\ known_tree' = refreshed_rows(known_base')
    /\ kn_added' = <<>>
    /\ UNCHANGED <<var_name, var_value, var_unit, suggest_list, suggest_shown, kn_accepted, OtherVars>>

NextKnown ==
  \E normalized \in {NormalizedOf}, suggested \in {SuggestionsOf} :
  \/ OnVarType(normalized, suggested)
  \/ AcceptSuggestion(normalized)
  \/ AcceptFromEntry(normalized)
  \/ TypeValue
  \/ OnAddKnown(normalized)
  \/ OnClearAll
  \/ OnDeleteSelected
  \/ MolAddToKnown
  \/ IceAddKnown

SpecKnown == InitKnown /\ [][NextKnown]_vars

\* C29: after the suggestion of a key k is accepted and Add / Update is
\* pressed with a numeric value, the known values hold that value under k,
\* for every key k of the registry.
C29_AcceptedKeyStored ==
  kn_added # <<>> =>
    /\ kn_added[1] \in DOMAIN known_base
    /\ kn_added[1] \in DOMAIN known_ui
    /\ known_ui[kn_added[1]].display_value = kn_added[2]

\* C30: known_base and known_ui have the same keys after every sequence of
\* Add / Update, Delete Selected, Clear All and additions of the tools.
C30_SameKeys == DOMAIN known_base = DOMAIN known_ui

\* The known values hold a value the user added and one a tool added.
C30_Witness ==
  /\ Cardinality(DOMAIN known_base) = 2
  /\ \E k \in DOMAIN known_ui : known_ui[k].unit = <<"a", "t", "m">>
  /\ \E k \in DOMAIN known_ui : known_ui[k].display_value = Dec(25, -1)

====
